---- MODULE Spec2Model ----
(***************************************************************************)
(* Resilient client of src/db_transport_api.py: the token bucket, the      *)
(* cache manager, the status classifier and _make_request_with_cache.      *)
(*                                                                         *)
(* Time is counted in whole seconds.  Token amounts are fixed-point        *)
(* numbers: a value v of `tokens' or `refill_rate' stands for v/TokenScale *)
(* tokens (per second).  Python's None is the empty tuple, a present value *)
(* x is <<x>>.                                                             *)
(***************************************************************************)
EXTENDS Integers, Sequences, FiniteSets, TLC

VARIABLES now, rate_limiter, cache_manager, stats, last, threads

vars == <<now, rate_limiter, cache_manager, stats, last, threads>>

----------------------------------------------------------------------------
(* Bounds of the model *)

MaxRequests == 3

MaxTime == 900

(* Seconds by which the clock advances between two calls. *)
Steps == {150}

(* (rate_limit_capacity, rate_limit_window, cache_max_size) triples a      *)
(* client is built with.                                                   *)
ClientConfigs == {<<0, 1, 1>>, <<1, 2, 2>>, <<2, 2, 1>>}

(* A token bucket used on its own: the longest sequence of consume calls   *)
(* and the latest time on its clock.                                       *)
MaxCalls == 4

MaxBucketTime == 4

(* (capacity, refill_rate) pairs a bucket is built with; refill_rate in    *)
(* units of 1/TokenScale tokens per second.                                *)
BucketConfigs == {<<0, 0>>, <<1, 1>>, <<2, 1>>, <<2, 2>>, <<2, 0>>}

(* The amounts consume and time_until_available are called with.           *)
BucketAmounts == {1, 2}

(* Threads that call consume(1) on one bucket, the calls each makes and    *)
(* the latest time on their clock.                                         *)
NumThreads == 2

MaxThreadCalls == 2

MaxThreadTime == 2

(* A cache manager used on its own: the latest time on its clock, the      *)
(* max_size it is built with and the payloads stored.                      *)
MaxCacheTime == 900

CacheSteps == {450}

CacheSizes == {1, 2}

Payloads == {"p1", "p2"}

(* A cache entry used on its own: the latest time on its clock, the steps  *)
(* of the clock and the (max_age, stale_while_revalidate) pairs it is      *)
(* built with.                                                             *)
MaxEntryTime == 1050

EntrySteps == {150}

(* The client called from NumThreads threads: the calls made in all, the   *)
(* latest time on the clock and its steps, and the clients, requests and   *)
(* outcomes used.                                                          *)
MaxRetryRequests == 5
MaxRetryTime == 6
RetrySteps == {1, 2}
(* <<capacity, window, max_size>>: refill rates of 1/2, 3/2 and 2 tokens   *)
(* per second, and a bucket that never refills.                            *)
RetryConfigs == {<<1, 2, 1>>, <<3, 2, 1>>, <<2, 1, 1>>, <<1, 3, 1>>}
MaxLayerCalls == 4
MaxLayerTime == 4
MaxConcurrentCalls == 3

MaxConcurrentTime == 300

ConcurrentSteps == {300}

ConcurrentConfigs == {<<2, 2, 1>>}

(* The status codes a response is classified for are 0..MaxStatus.         *)
MaxStatus == 700

EntryConfigs == {<<150, 0>>, <<150, 150>>, <<150, 600>>, <<300, 0>>, <<300, 150>>, <<300, 600>>}

----------------------------------------------------------------------------
(* Values *)

None == <<>>

Some(x) == <<x>>

TokenScale == 2

max_age_default == 300

stale_while_revalidate_default == 600

Min(a, b) == IF a <= b THEN a ELSE b

Max(a, b) == IF a >= b THEN a ELSE b

SUCCESS == "success"

NOT_FOUND == "not_found"

RATE_LIMITED == "rate_limited"

UPSTREAM_ERROR == "upstream_error"

TRANSIENT_ERROR == "transient_error"

PERMANENT_ERROR == "permanent_error"

APIResultType ==
  {SUCCESS, NOT_FOUND, RATE_LIMITED, UPSTREAM_ERROR, TRANSIENT_ERROR, PERMANENT_ERROR}

(* APIResult with the dataclass defaults for the fields not given. *)
APIResult(result_type, data, error_message, http_status, retry_after, from_cache, cached_at) ==
  [result_type |-> result_type, data |-> data, error_message |-> error_message,
   http_status |-> http_status, retry_after |-> retry_after,
   from_cache |-> from_cache, cached_at |-> cached_at]

is_success_uncached(result) == result.result_type = SUCCESS /\ ~result.from_cache

is_success(result) == result.result_type = SUCCESS

should_retry_unless_permanent(result) ==
  result.result_type \notin {NOT_FOUND, PERMANENT_ERROR}

should_retry(result) ==
  result.result_type \in {RATE_LIMITED, TRANSIENT_ERROR, UPSTREAM_ERROR}

can_fallback_to_cache(result) ==
  result.result_type \in {RATE_LIMITED, UPSTREAM_ERROR, TRANSIENT_ERROR}

----------------------------------------------------------------------------
(* CacheEntry *)

CacheEntry(data, fetched_at, etag) ==
  [data |-> data, fetched_at |-> fetched_at, etag |-> etag,
   max_age |-> max_age_default,
   stale_while_revalidate |-> stale_while_revalidate_default]

(* CacheEntry with max_age and stale_while_revalidate given. *)
CacheEntryWith(data, fetched_at, etag, max_age, stale_while_revalidate) ==
  [CacheEntry(data, fetched_at, etag) EXCEPT
     !.max_age = max_age, !.stale_while_revalidate = stale_while_revalidate]

is_fresh_inclusive(entry, t) == t - entry.fetched_at <= entry.max_age

is_fresh_inverted(entry, t) == t - entry.fetched_at > entry.max_age

is_fresh(entry, t) == t - entry.fetched_at < entry.max_age

is_stale_but_usable_forever(entry, t) == TRUE

is_stale_but_usable_no_window(entry, t) == t - entry.fetched_at < entry.max_age

is_stale_but_usable(entry, t) ==
  t - entry.fetched_at < entry.max_age + entry.stale_while_revalidate

----------------------------------------------------------------------------
(* TokenBucket *)

TokenBucket(capacity, refill_rate, t) ==
  [capacity |-> capacity, tokens |-> capacity * TokenScale,
   refill_rate |-> refill_rate, last_update |-> t]

(* The first three statements of consume, at time t. *)
refill(bucket, t) ==
  LET tokens_to_add == (t - bucket.last_update) * bucket.refill_rate
  IN [bucket EXCEPT !.tokens = Min(bucket.capacity * TokenScale, @ + tokens_to_add),
                    !.last_update = t]

consume_unclamped(bucket, tokens, t) ==
  LET tokens_to_add == (t - bucket.last_update) * bucket.refill_rate
      refilled == bucket.tokens + tokens_to_add
      ok == refilled >= tokens * TokenScale
  IN [ok |-> ok,
      bucket |-> [bucket EXCEPT !.tokens = IF ok THEN refilled - tokens * TokenScale
                                                ELSE refilled,
                                !.last_update = t]]

consume_strict(bucket, tokens, t) ==
  LET tokens_to_add == (t - bucket.last_update) * bucket.refill_rate
      refilled == Min(bucket.capacity * TokenScale, bucket.tokens + tokens_to_add)
      ok == refilled > tokens * TokenScale
  IN [ok |-> ok,
      bucket |-> [bucket EXCEPT !.tokens = IF ok THEN refilled - tokens * TokenScale
                                                ELSE refilled,
                                !.last_update = t]]

consume_discarding_refill(bucket, tokens, t) ==
  LET tokens_to_add == (t - bucket.last_update) * bucket.refill_rate
      refilled == Min(bucket.capacity * TokenScale, bucket.tokens + tokens_to_add)
      ok == refilled >= tokens * TokenScale
  IN [ok |-> ok,
      bucket |-> [bucket EXCEPT !.tokens = IF ok THEN refilled - tokens * TokenScale
                                                ELSE bucket.tokens,
                                !.last_update = t]]

consume_granting_always(bucket, tokens, t) ==
  LET tokens_to_add == (t - bucket.last_update) * bucket.refill_rate
      refilled == Min(bucket.capacity * TokenScale, bucket.tokens + tokens_to_add)
  IN [ok |-> TRUE,
      bucket |-> [bucket EXCEPT !.tokens = Max(0, refilled - tokens * TokenScale),
                                !.last_update = t]]

(* consume(tokens) at time t: the outcome and the bucket it leaves. *)
consume(bucket, tokens, t) ==
  LET tokens_to_add == (t - bucket.last_update) * bucket.refill_rate
      refilled == Min(bucket.capacity * TokenScale, bucket.tokens + tokens_to_add)
      ok == refilled >= tokens * TokenScale
  IN [ok |-> ok,
      bucket |-> [bucket EXCEPT !.tokens = IF ok THEN refilled - tokens * TokenScale
                                                ELSE refilled,
                                !.last_update = t]]

(* `with self._lock': the lock can be taken when no thread holds it.       *)
lock_always_acquirable(holder) == TRUE

lock_acquirable(holder) == holder = None

lock_kept(holder) == holder

(* Leaving `with self._lock': no thread holds the lock. *)
lock_released(holder) == None

time_until_available_ignoring_tokens(bucket, tokens) ==
  IF bucket.tokens >= tokens * TokenScale
    THEN [raised |-> "none", num |-> 0, den |-> 1]
    ELSE IF bucket.refill_rate = 0
      THEN [raised |-> "ZeroDivisionError", num |-> 0, den |-> 1]
      ELSE [raised |-> "none", num |-> tokens * TokenScale, den |-> bucket.refill_rate]

(* time_until_available(tokens): the wait as the fraction num/den of a     *)
(* second, or the exception the division raises.                           *)
time_until_available(bucket, tokens) ==
  IF bucket.tokens >= tokens * TokenScale
    THEN [raised |-> "none", num |-> 0, den |-> 1]
    ELSE IF bucket.refill_rate = 0
      THEN [raised |-> "ZeroDivisionError", num |-> 0, den |-> 1]
      ELSE [raised |-> "none", num |-> tokens * TokenScale - bucket.tokens,
            den |-> bucket.refill_rate]

----------------------------------------------------------------------------
(* CacheManager *)

(* Alphabetical order of the parameter names, as json.dumps(sort_keys=True) *)
(* orders them.                                                             *)
SortedNames == <<"from", "to">>

ParamNames(params) == {params[i][1] : i \in DOMAIN params}

ParamValue(params, name) ==
  params[CHOOSE i \in DOMAIN params : params[i][1] = name][2]

json_dumps_unsorted(params) == params

(* json.dumps(params, sort_keys=True): the pairs in the order of the names. *)
json_dumps_sorted(params) ==
  LET present == SelectSeq(SortedNames, LAMBDA n : n \in ParamNames(params))
  IN [i \in 1..Len(present) |-> <<present[i], ParamValue(params, present[i])>>]

generate_key_endpoint_only(endpoint, params) == <<endpoint>>

(* The key data that is hashed; the md5 digest is taken to be injective.   *)
generate_key(endpoint, params) ==
  IF params # <<>>
    THEN <<endpoint, "?", json_dumps_sorted(params)>>
    ELSE <<endpoint>>

CacheManager(max_size) ==
  [max_size |-> max_size, cache |-> <<>>, access_times |-> <<>>]

(* _access_times is a dict: a list of (key, time) items in insertion order. *)
AccessKeys(access_times) == {access_times[i].key : i \in DOMAIN access_times}

AccessTimeSet(access_times, key, t) ==
  IF key \in AccessKeys(access_times)
    THEN [i \in DOMAIN access_times |->
            IF access_times[i].key = key
              THEN [key |-> key, time |-> t] ELSE access_times[i]]
    ELSE Append(access_times, [key |-> key, time |-> t])

AccessTimeDel(access_times, key) ==
  SelectSeq(access_times, LAMBDA item : item.key # key)

(* min(self._access_times.keys(), key=...): the first key, in insertion    *)
(* order, whose access time is the smallest.                               *)
oldest_key(access_times) ==
  LET i == CHOOSE j \in DOMAIN access_times :
             /\ \A k \in DOMAIN access_times : access_times[j].time <= access_times[k].time
             /\ \A k \in 1..(j - 1) : access_times[k].time > access_times[j].time
  IN access_times[i].key

CachePut(cache, key, entry) ==
  [k \in (DOMAIN cache) \cup {key} |-> IF k = key THEN entry ELSE cache[k]]

CacheDel(cache, key) == [k \in (DOMAIN cache) \ {key} |-> cache[k]]

(* get(endpoint, params) at time t: (entry, key) and the manager it leaves. *)
cache_get(cm, endpoint, params, t) ==
  LET key == generate_key(endpoint, params)
  IN [entry |-> IF key \in DOMAIN cm.cache THEN Some(cm.cache[key]) ELSE None,
      key |-> key,
      cm |-> [cm EXCEPT !.access_times = AccessTimeSet(@, key, t)]]

cache_set_evicting_late(cm, key, entry, t) ==
  LET evict == Cardinality(DOMAIN cm.cache) > cm.max_size /\ key \notin DOMAIN cm.cache
      stored(c, a) == [cm EXCEPT !.cache = CachePut(c, key, entry),
                                 !.access_times = AccessTimeSet(a, key, t)]
  IN IF ~evict
       THEN [raised |-> "none", cm |-> stored(cm.cache, cm.access_times)]
       ELSE LET oldest == oldest_key(cm.access_times)
            IN IF oldest \notin DOMAIN cm.cache
                 THEN [raised |-> "KeyError", cm |-> cm]
                 ELSE [raised |-> "none",
                       cm |-> stored(CacheDel(cm.cache, oldest),
                                     AccessTimeDel(cm.access_times, oldest))]

cache_set_keeping_first(cm, key, entry, t) ==
  LET evict == Cardinality(DOMAIN cm.cache) >= cm.max_size /\ key \notin DOMAIN cm.cache
      kept == IF key \in DOMAIN cm.cache THEN cm.cache[key] ELSE entry
      stored(c, a) == [cm EXCEPT !.cache = CachePut(c, key, kept),
                                 !.access_times = AccessTimeSet(a, key, t)]
  IN IF ~evict
       THEN [raised |-> "none", cm |-> stored(cm.cache, cm.access_times)]
       ELSE IF cm.access_times = <<>>
         THEN [raised |-> "ValueError", cm |-> cm]
         ELSE LET oldest == oldest_key(cm.access_times)
              IN IF oldest \notin DOMAIN cm.cache
                   THEN [raised |-> "KeyError", cm |-> cm]
                   ELSE [raised |-> "none",
                         cm |-> stored(CacheDel(cm.cache, oldest),
                                       AccessTimeDel(cm.access_times, oldest))]

(* set(key, entry) at time t: the exception it raises, if any, and the     *)
(* manager it leaves.                                                      *)
cache_set(cm, key, entry, t) ==
  LET evict == Cardinality(DOMAIN cm.cache) >= cm.max_size /\ key \notin DOMAIN cm.cache
      stored(c, a) == [cm EXCEPT !.cache = CachePut(c, key, entry),
                                 !.access_times = AccessTimeSet(a, key, t)]
  IN IF ~evict
       THEN [raised |-> "none", cm |-> stored(cm.cache, cm.access_times)]
       ELSE IF cm.access_times = <<>>
         THEN [raised |-> "ValueError", cm |-> cm]
         ELSE LET oldest == oldest_key(cm.access_times)
              IN IF oldest \notin DOMAIN cm.cache
                   THEN [raised |-> "KeyError", cm |-> cm]
                   ELSE [raised |-> "none",
                         cm |-> stored(CacheDel(cm.cache, oldest),
                                       AccessTimeDel(cm.access_times, oldest))]

cache_clear_entries_kept(cm) == [cm EXCEPT !.access_times = <<>>]

cache_clear(cm) == [cm EXCEPT !.cache = <<>>, !.access_times = <<>>]

----------------------------------------------------------------------------
(* DBTransportAPIClient: classification and headers *)

recoverable_with_permanent ==
  {RATE_LIMITED, UPSTREAM_ERROR, TRANSIENT_ERROR, PERMANENT_ERROR, NOT_FOUND}

(* The result types for which a usable stale entry replaces the error.     *)
recoverable_types == {RATE_LIMITED, UPSTREAM_ERROR, TRANSIENT_ERROR}

map_http_status_to_result_type_wide_5xx(status_code) ==
  IF 200 <= status_code /\ status_code < 300 THEN SUCCESS
  ELSE IF status_code = 404 THEN NOT_FOUND
  ELSE IF status_code = 429 THEN RATE_LIMITED
  ELSE IF 400 <= status_code /\ status_code < 500 THEN PERMANENT_ERROR
  ELSE IF 500 <= status_code THEN UPSTREAM_ERROR
  ELSE TRANSIENT_ERROR

map_http_status_to_result_type(status_code) ==
  IF 200 <= status_code /\ status_code < 300 THEN SUCCESS
  ELSE IF status_code = 404 THEN NOT_FOUND
  ELSE IF status_code = 429 THEN RATE_LIMITED
  ELSE IF 400 <= status_code /\ status_code < 500 THEN PERMANENT_ERROR
  ELSE IF 500 <= status_code /\ status_code < 600 THEN UPSTREAM_ERROR
  ELSE TRANSIENT_ERROR

(* A header value is a sequence of one-character strings.                  *)
Digits == <<"0", "1", "2", "3", "4", "5", "6", "7", "8", "9">>

IsDigit(c) == \E i \in DOMAIN Digits : Digits[i] = c

DigitValue(c) == (CHOOSE i \in DOMAIN Digits : Digits[i] = c) - 1

RECURSIVE DigitsValue(_)
DigitsValue(text) ==
  IF text = <<>> THEN 0
  ELSE 10 * DigitsValue(SubSeq(text, 1, Len(text) - 1)) + DigitValue(text[Len(text)])

(* int(text): None stands for the ValueError of a text that is no number.  *)
parse_int(text) ==
  LET negative == text # <<>> /\ text[1] = "-"
      digits == IF negative THEN Tail(text) ELSE text
  IN IF digits = <<>> \/ \E i \in DOMAIN digits : ~IsDigit(digits[i])
       THEN None
       ELSE Some(IF negative THEN 0 - DigitsValue(digits) ELSE DigitsValue(digits))

extract_rate_limit_info_reset_first(response, t) ==
  LET retry_after == response.retry_after
      x_rate_limit_reset == response.x_rate_limit_reset
  IN IF /\ x_rate_limit_reset # None
        /\ x_rate_limit_reset[1] # <<>>
        /\ parse_int(x_rate_limit_reset[1]) # None
       THEN Some(Max(0, parse_int(x_rate_limit_reset[1])[1] - t))
       ELSE IF retry_after # None /\ retry_after[1] # <<>> /\ parse_int(retry_after[1]) # None
         THEN parse_int(retry_after[1])
         ELSE None

extract_rate_limit_info(response, t) ==
  LET retry_after == response.retry_after
      x_rate_limit_reset == response.x_rate_limit_reset
  IN IF retry_after # None /\ retry_after[1] # <<>> /\ parse_int(retry_after[1]) # None
       THEN parse_int(retry_after[1])
       ELSE IF /\ x_rate_limit_reset # None
               /\ x_rate_limit_reset[1] # <<>>
               /\ parse_int(x_rate_limit_reset[1]) # None
         THEN Some(Max(0, parse_int(x_rate_limit_reset[1])[1] - t))
         ELSE None

----------------------------------------------------------------------------
(* DBTransportAPIClient._make_request_with_cache *)

(* The Success result built from a cache entry. *)
cached_result(entry) ==
  APIResult(SUCCESS, Some(entry.data), None, None, None, TRUE, Some(entry.fetched_at))

has_usable_stale(cache_entry, t) ==
  cache_entry # None /\ is_stale_but_usable(cache_entry[1], t)

(* The exception handlers around session.get, at time t. *)
handle_exception(st, cache_entry, kind, t) ==
  LET st1 == [st EXCEPT !.errors = @ + 1]
  IN IF kind = "Timeout"
       THEN [stats |-> st1,
             result |-> IF has_usable_stale(cache_entry, t)
                          THEN cached_result(cache_entry[1])
                          ELSE APIResult(TRANSIENT_ERROR, None, Some("Request timeout"),
                                         None, None, FALSE, None)]
     ELSE IF kind = "ConnectionError"
       THEN [stats |-> st1,
             result |-> IF has_usable_stale(cache_entry, t)
                          THEN cached_result(cache_entry[1])
                          ELSE APIResult(TRANSIENT_ERROR, None, Some("Connection error"),
                                         None, None, FALSE, None)]
     ELSE [stats |-> st1,
           result |-> APIResult(TRANSIENT_ERROR, None, Some("Request failed"),
                                None, None, FALSE, None)]

(* The entry a 304 response stores in place of cache_entry, at time t.     *)
refreshed_entry_stale_timestamp(cache_entry, t) ==
  CacheEntry(cache_entry.data, cache_entry.fetched_at, cache_entry.etag)

refreshed_entry(cache_entry, t) == CacheEntry(cache_entry.data, t, cache_entry.etag)

handle_success_caching_unparsed(cm, st, cache_key, response, t) ==
  LET data == IF response.json = None THEN "" ELSE response.json[1]
      s == cache_set(cm, cache_key, CacheEntry(data, t, response.etag), t)
  IN IF s.raised # "none"
       THEN [cache_manager |-> s.cm, stats |-> st, raised |-> s.raised, result |-> None]
     ELSE IF response.json = None
       THEN [cache_manager |-> s.cm, stats |-> st, raised |-> "none",
             result |-> Some(APIResult(TRANSIENT_ERROR, None, Some("Invalid JSON response"),
                                       Some(response.status_code), None, FALSE, None))]
     ELSE [cache_manager |-> s.cm, stats |-> st, raised |-> "none",
           result |-> Some(APIResult(SUCCESS, Some(data), None,
                                     Some(response.status_code), None, FALSE, None))]

(* The branch of a response classified SUCCESS, at time t: response.json() *)
(* raises ValueError on a body that is no JSON, and so does min() in       *)
(* cache_manager.set on an empty _access_times; both end in the handler    *)
(* `except ValueError'.                                                    *)
handle_success(cm, st, cache_key, response, t) ==
  LET unchanged(result) ==
        [cache_manager |-> cm, stats |-> st, raised |-> "none", result |-> Some(result)]
      invalid_json == APIResult(TRANSIENT_ERROR, None, Some("Invalid JSON response"),
                                Some(response.status_code), None, FALSE, None)
  IN IF response.json = None
       THEN unchanged(invalid_json)
       ELSE LET data == response.json[1]
                s == cache_set(cm, cache_key, CacheEntry(data, t, response.etag), t)
            IN IF s.raised = "ValueError"
                 THEN unchanged(invalid_json)
               ELSE IF s.raised # "none"
                 THEN [cache_manager |-> s.cm, stats |-> st, raised |-> s.raised,
                       result |-> None]
               ELSE [cache_manager |-> s.cm, stats |-> st, raised |-> "none",
                     result |-> Some(APIResult(SUCCESS, Some(data), None,
                                               Some(response.status_code), None,
                                               FALSE, None))]

(* The body of the try block after session.get returned `response', at     *)
(* time t.  `raised' names the exception that leaves the method, if any.   *)
handle_response(cm, st, cache_entry, cache_key, response, t) ==
  LET result_type == map_http_status_to_result_type(response.status_code)
  IN IF response.status_code = 304 /\ cache_entry # None
       THEN LET fresh_entry == refreshed_entry(cache_entry[1], t)
                s == cache_set(cm, cache_key, fresh_entry, t)
            IN IF s.raised # "none"
                 THEN [cache_manager |-> s.cm, stats |-> st, raised |-> s.raised,
                       result |-> None]
                 ELSE [cache_manager |-> s.cm, stats |-> st, raised |-> "none",
                       result |-> Some(APIResult(SUCCESS, Some(cache_entry[1].data), None,
                                                 None, None, TRUE,
                                                 Some(fresh_entry.fetched_at)))]
     ELSE IF result_type = SUCCESS
       THEN handle_success(cm, st, cache_key, response, t)
     ELSE LET st1 == [st EXCEPT !.errors = @ + 1]
              retry_after == IF result_type = RATE_LIMITED
                               THEN extract_rate_limit_info(response, t) ELSE None
          IN IF has_usable_stale(cache_entry, t) /\ result_type \in recoverable_types
               THEN [cache_manager |-> cm, stats |-> st1, raised |-> "none",
                     result |-> Some(cached_result(cache_entry[1]))]
               ELSE [cache_manager |-> cm, stats |-> st1, raised |-> "none",
                     result |-> Some(APIResult(result_type, None, Some("API error"),
                                               Some(response.status_code), retry_after,
                                               FALSE, None))]

handle_rate_limited_truncating(bucket, st, cache_entry, t) ==
  LET st1 == [st EXCEPT !.rate_limit_hits = @ + 1]
      wait_time == time_until_available(bucket, 1)
  IN IF wait_time.raised # "none"
       THEN [stats |-> st1, raised |-> wait_time.raised, result |-> None]
     ELSE IF has_usable_stale(cache_entry, t)
       THEN [stats |-> [st1 EXCEPT !.cache_hits = @ + 1], raised |-> "none",
             result |-> Some(cached_result(cache_entry[1]))]
     ELSE [stats |-> st1, raised |-> "none",
           result |-> Some(APIResult(RATE_LIMITED, None, Some("Rate limit exceeded"),
                                     None, Some(wait_time.num \div wait_time.den),
                                     FALSE, None))]

(* The branch taken when rate_limiter.consume() returned False, at time t. *)
handle_rate_limited(bucket, st, cache_entry, t) ==
  LET st1 == [st EXCEPT !.rate_limit_hits = @ + 1]
      wait_time == time_until_available(bucket, 1)
  IN IF wait_time.raised # "none"
       THEN [stats |-> st1, raised |-> wait_time.raised, result |-> None]
     ELSE IF has_usable_stale(cache_entry, t)
       THEN [stats |-> [st1 EXCEPT !.cache_hits = @ + 1], raised |-> "none",
             result |-> Some(cached_result(cache_entry[1]))]
     ELSE [stats |-> st1, raised |-> "none",
           result |-> Some(APIResult(RATE_LIMITED, None, Some("Rate limit exceeded"),
                                     None, Some((wait_time.num \div wait_time.den) + 1),
                                     FALSE, None))]

request_headers_for_any_entry(cache_entry) ==
  IF cache_entry # None THEN cache_entry[1].etag ELSE None

(* The If-None-Match header of the GET: `if cache_entry and                *)
(* cache_entry.etag', where None and the empty string are false.           *)
request_headers(cache_entry) ==
  IF cache_entry # None /\ cache_entry[1].etag \notin {None, Some("")}
    THEN cache_entry[1].etag ELSE None

(* The whole call at time t; the GET, if issued, ends with `outcome'.       *)
(* `gets' counts the GETs issued and `if_none_match' is the header they    *)
(* carried.                                                                *)
make_request_with_cache(rl, cm, st, endpoint, params, t, outcome) ==
  LET st1 == [st EXCEPT !.requests_made = @ + 1]
      got == cache_get(cm, endpoint, params, t)
      cache_entry == got.entry
      cache_key == got.key
      base == [rate_limiter |-> rl, cache_manager |-> got.cm, stats |-> st1,
               raised |-> "none", result |-> None, gets |-> 0,
               if_none_match |-> None, cache_entry |-> cache_entry,
               cache_key |-> cache_key, consumed |-> None]
  IN IF cache_entry # None /\ is_fresh(cache_entry[1], t)
       THEN [base EXCEPT !.stats = [st1 EXCEPT !.cache_hits = @ + 1],
                         !.result = Some(cached_result(cache_entry[1]))]
       ELSE
         LET c == consume(rl, 1, t)
         IN IF ~c.ok
              THEN LET r == handle_rate_limited(c.bucket, st1, cache_entry, t)
                   IN [base EXCEPT !.rate_limiter = c.bucket, !.stats = r.stats,
                                   !.raised = r.raised, !.result = r.result,
                                   !.consumed = Some(FALSE)]
              ELSE
                LET headers == request_headers(cache_entry)
                    sent == [base EXCEPT !.rate_limiter = c.bucket, !.gets = 1,
                                         !.if_none_match = headers,
                                         !.consumed = Some(TRUE)]
                IN IF outcome.kind = "response"
                     THEN LET r == handle_response(got.cm, st1, cache_entry, cache_key,
                                                   outcome, t)
                          IN [sent EXCEPT !.cache_manager = r.cache_manager,
                                          !.stats = r.stats, !.raised = r.raised,
                                          !.result = r.result]
                     ELSE LET r == handle_exception(st1, cache_entry, outcome.kind, t)
                          IN [sent EXCEPT !.stats = r.stats, !.result = Some(r.result)]

----------------------------------------------------------------------------
(* Inputs *)

Requests ==
  { [endpoint |-> "/journeys", params |-> << <<"from", "A">>, <<"to", "B">> >>],
    [endpoint |-> "/journeys", params |-> << <<"to", "B">>, <<"from", "A">> >>],
    [endpoint |-> "/journeys", params |-> << <<"from", "A">>, <<"to", "C">> >>],
    [endpoint |-> "/locations", params |-> <<>>] }

Response(status_code, json, etag, retry_after, x_rate_limit_reset) ==
  [kind |-> "response", status_code |-> status_code, json |-> json, etag |-> etag,
   retry_after |-> retry_after, x_rate_limit_reset |-> x_rate_limit_reset]

Raised(kind) ==
  [kind |-> kind, status_code |-> 0, json |-> None, etag |-> None,
   retry_after |-> None, x_rate_limit_reset |-> None]

(* What session.get can end with: a response or a requests exception.      *)
Outcomes ==
  { Response(200, Some("p1"), Some("v1"), None, None),
    Response(200, Some("p2"), None, None, None),
    Response(200, None, None, None, None),
    Response(429, None, None, Some(<<"5">>), None),
    Response(429, None, None, Some(<<"1", "2">>), Some(<<"9", "9", "9">>)) }
  \cup { Response(c, None, None, None, None) : c \in {302, 304, 403, 404, 500} }
  \cup { Raised(k) : k \in {"Timeout", "ConnectionError", "RequestException"} }

----------------------------------------------------------------------------
(* The client and its callers *)

Init ==
  /\ now = 0
  /\ \E cfg \in ClientConfigs :
       /\ rate_limiter = TokenBucket(cfg[1], (cfg[1] * TokenScale) \div cfg[2], 0)
       /\ cache_manager = CacheManager(cfg[3])
  /\ stats = [requests_made |-> 0, cache_hits |-> 0, rate_limit_hits |-> 0, errors |-> 0]
  /\ last = [op |-> "init"]
  /\ threads = None

(* Cache keys are interchangeable: nothing in the client depends on which  *)
(* key it is.  A request for a key the cache manager holds nothing about   *)
(* therefore uses the first such key of KeyOrder.                          *)
KeyOrder ==
  << generate_key("/journeys", << <<"from", "A">>, <<"to", "B">> >>),
     generate_key("/journeys", << <<"from", "A">>, <<"to", "C">> >>),
     generate_key("/locations", <<>>) >>

KnownKeys(cm) == AccessKeys(cm.access_times) \cup DOMAIN cm.cache

FirstUnknownKey(cm, key) ==
  \A i \in DOMAIN KeyOrder :
    KeyOrder[i] = key => \A j \in 1..(i - 1) : KeyOrder[j] \in KnownKeys(cm)

(* The refusal by the limiter that the latest recorded call ended in, if   *)
(* it did: when it was made and the retry hint it returned.                *)
refusal(l) ==
  IF /\ l.op = "request"
     /\ l.consumed = Some(FALSE)
     /\ l.raised = "none"
     /\ l.result # None
     /\ l.result[1].result_type = RATE_LIMITED
    THEN Some([t |-> l.t, retry_after |-> l.result[1].retry_after[1]])
    ELSE None

(* One call of _make_request_with_cache.  `last' records the call: what    *)
(* it found, what it sent and what it returned or raised, and the refusal  *)
(* it follows, if the caller's previous step was a refused call.           *)
RequestWithin(max_requests, req, outcome) ==
  /\ stats.requests_made < max_requests
  /\ LET key == generate_key(req.endpoint, req.params)
     IN key \in KnownKeys(cache_manager) \/ FirstUnknownKey(cache_manager, key)
  /\ \E r \in {make_request_with_cache(rate_limiter, cache_manager, stats,
                                       req.endpoint, req.params, now, outcome)} :
        /\ now' = now
        /\ rate_limiter' = r.rate_limiter
        /\ cache_manager' = r.cache_manager
        /\ stats' = r.stats
        /\ last' = [op |-> "request", t |-> now,
                    pre_rate_limiter |-> rate_limiter, pre_stats |-> stats,
                    cache_entry |-> r.cache_entry, cache_key |-> r.cache_key,
                    consumed |-> r.consumed, gets |-> r.gets,
                    if_none_match |-> r.if_none_match,
                    outcome |-> IF r.gets = 1 THEN Some(outcome) ELSE None,
                    raised |-> r.raised, result |-> r.result,
                    follows |-> refusal(last)]
        /\ threads' = threads

Request(req, outcome) == RequestWithin(MaxRequests, req, outcome)

(* clear_cache() *)
ClearCache ==
  /\ cache_manager' = cache_clear(cache_manager)
  /\ last' = [op |-> "clear_cache"]
  /\ UNCHANGED <<now, rate_limiter, stats, threads>>

(* The clock advances between two calls. *)
Tick(d) ==
  /\ now + d <= MaxTime
  /\ now' = now + d
  /\ last' = [op |-> "tick"]
  /\ UNCHANGED <<rate_limiter, cache_manager, stats, threads>>

Next ==
  \/ \E req \in Requests, outcome \in Outcomes : Request(req, outcome)
  \/ ClearCache
  \/ \E d \in Steps : Tick(d)

Spec == Init /\ [][Next]_vars

(* The clients whose bucket refills (rate_limit_capacity > 0). *)
InitRefilling == Init /\ rate_limiter.refill_rate > 0

SpecRefilling == InitRefilling /\ [][Next]_vars

(* The client with the responses that matter to the conditional GET: an    *)
(* ETag header with a value, with the empty value, and none.               *)
ConditionalOutcomes ==
  { Response(200, Some("p1"), Some("v1"), None, None),
    Response(200, Some("p1"), Some(""), None, None),
    Response(200, Some("p2"), None, None, None),
    Response(304, None, None, None, None),
    Raised("Timeout") }

NextConditional ==
  \/ \E req \in Requests, outcome \in ConditionalOutcomes : Request(req, outcome)
  \/ \E d \in Steps : Tick(d)

SpecConditional == Init /\ [][NextConditional]_vars

(* The client whose cache is given an entry by its caller before the       *)
(* first request, as the tests of the client do                            *)
(* (client.cache_manager.set(cache_key, CacheEntry(..., max_age=60))).     *)
SeedCache(req, cfg) ==
  /\ stats.requests_made = 0
  /\ cache_manager.cache = <<>>
  /\ LET key == generate_key(req.endpoint, req.params)
     IN key \in KnownKeys(cache_manager) \/ FirstUnknownKey(cache_manager, key)
  /\ \E s \in {cache_set(cache_manager, generate_key(req.endpoint, req.params),
                          CacheEntryWith("p1", now, Some("v1"), cfg[1], cfg[2]), now)} :
        /\ s.raised = "none"
        /\ cache_manager' = s.cm
  /\ last' = [op |-> "seed"]
  /\ UNCHANGED <<now, rate_limiter, stats, threads>>

SeededOutcomes ==
  { Response(200, Some("p2"), None, None, None),
    Response(304, None, None, None, None),
    Response(500, None, None, None, None),
    Raised("Timeout") }

NextSeeded ==
  \/ \E req \in Requests, cfg \in EntryConfigs : SeedCache(req, cfg)
  \/ \E req \in Requests, outcome \in SeededOutcomes : Request(req, outcome)
  \/ \E d \in Steps : Tick(d)

SpecSeeded == Init /\ [][NextSeeded]_vars

(* The client and a caller that sleeps between its calls, second by        *)
(* second: `last' keeps the record of the caller's latest call while the   *)
(* clock advances.                                                         *)
InitRetry ==
  /\ now = 0
  /\ \E cfg \in RetryConfigs :
       /\ rate_limiter = TokenBucket(cfg[1], (cfg[1] * TokenScale) \div cfg[2], 0)
       /\ cache_manager = CacheManager(cfg[3])
  /\ stats = [requests_made |-> 0, cache_hits |-> 0, rate_limit_hits |-> 0, errors |-> 0]
  /\ last = [op |-> "init"]
  /\ threads = None

RetryRequests ==
  { [endpoint |-> "/journeys", params |-> << <<"from", "A">>, <<"to", "B">> >>],
    [endpoint |-> "/locations", params |-> <<>>] }

RetryOutcomes ==
  { Response(200, Some("p1"), Some("v1"), None, None),
    Response(500, None, None, None, None),
    Raised("Timeout") }

RetryCall(req, outcome) == RequestWithin(MaxRetryRequests, req, outcome)

Sleep(d) ==
  /\ now + d <= MaxRetryTime
  /\ now' = now + d
  /\ UNCHANGED <<rate_limiter, cache_manager, stats, last, threads>>

NextRetry ==
  \/ \E req \in RetryRequests, outcome \in RetryOutcomes : RetryCall(req, outcome)
  \/ \E d \in RetrySteps : Sleep(d)

SpecRetry == InitRetry /\ [][NextRetry]_vars

----------------------------------------------------------------------------
(* A TokenBucket and its callers *)

(* `last' records the latest call and `last.log' every consume call so far. *)
InitBucket ==
  /\ now = 0
  /\ \E cfg \in BucketConfigs : rate_limiter = TokenBucket(cfg[1], cfg[2], 0)
  /\ cache_manager = CacheManager(1)
  /\ stats = [requests_made |-> 0, cache_hits |-> 0, rate_limit_hits |-> 0, errors |-> 0]
  /\ last = [op |-> "init", log |-> <<>>]
  /\ threads = None

(* consume(n) *)
Consume(n) ==
  /\ Len(last.log) < MaxCalls
  /\ \E c \in {consume(rate_limiter, n, now)} :
       /\ rate_limiter' = c.bucket
       /\ last' = [op |-> "consume", n |-> n, t |-> now, ok |-> c.ok,
                   pre |-> rate_limiter,
                   log |-> Append(last.log, [n |-> n, t |-> now, ok |-> c.ok,
                                             pre |-> rate_limiter, post |-> c.bucket])]
  /\ UNCHANGED <<now, cache_manager, stats, threads>>

(* time_until_available(n): the method assigns nothing. *)
TimeUntilAvailable(n) ==
  /\ last' = [op |-> "time_until_available", n |-> n, t |-> now,
              pre |-> rate_limiter,
              wait |-> time_until_available(rate_limiter, n),
              log |-> last.log]
  /\ UNCHANGED <<now, rate_limiter, cache_manager, stats, threads>>

(* The clock advances by one second between two calls. *)
TickBucket ==
  /\ now + 1 <= MaxBucketTime
  /\ now' = now + 1
  /\ last' = [op |-> "tick", log |-> last.log]
  /\ UNCHANGED <<rate_limiter, cache_manager, stats, threads>>

NextBucket ==
  \/ \E n \in BucketAmounts : Consume(n)
  \/ \E n \in BucketAmounts : TimeUntilAvailable(n)
  \/ TickBucket

SpecBucket == InitBucket /\ [][NextBucket]_vars

----------------------------------------------------------------------------
(* Threads calling consume(1) on one TokenBucket *)

Threads == 1..NumThreads

(* `threads.lock' is the holder of the bucket's _lock; pc[th] is the       *)
(* statement of consume thread th is about to execute; calls[th] and       *)
(* granted[th] count the calls th began and the ones that returned True    *)
(* (refused: False).                                                       *)
InitThreads ==
  /\ now = 0
  /\ \E cfg \in BucketConfigs : rate_limiter = TokenBucket(cfg[1], cfg[2], 0)
  /\ cache_manager = CacheManager(1)
  /\ stats = [requests_made |-> 0, cache_hits |-> 0, rate_limit_hits |-> 0, errors |-> 0]
  /\ last = [op |-> "init"]
  /\ threads = [lock |-> None,
                pc |-> [th \in Threads |-> "idle"],
                calls |-> [th \in Threads |-> 0],
                granted |-> [th \in Threads |-> 0],
                refused |-> [th \in Threads |-> 0]]

ThreadStep(th, from) ==
  /\ threads.pc[th] = from
  /\ last' = [op |-> "thread", th |-> th, pc |-> from]
  /\ UNCHANGED <<now, cache_manager, stats>>

(* A thread calls consume(1) and waits for the lock. *)
ThreadCall(th) ==
  /\ ThreadStep(th, "idle")
  /\ threads.calls[th] < MaxThreadCalls
  /\ threads' = [threads EXCEPT !.pc[th] = "acquire", !.calls[th] = @ + 1]
  /\ UNCHANGED rate_limiter

(* with self._lock: *)
ThreadAcquire(th) ==
  /\ ThreadStep(th, "acquire")
  /\ lock_acquirable(threads.lock)
  /\ threads' = [threads EXCEPT !.pc[th] = "refill", !.lock = Some(th)]
  /\ UNCHANGED rate_limiter

(* now = time.time(); tokens = min(capacity, tokens + ...); last_update = now *)
ThreadRefill(th) ==
  /\ ThreadStep(th, "refill")
  /\ rate_limiter' = refill(rate_limiter, now)
  /\ threads' = [threads EXCEPT !.pc[th] = "check"]

(* if self.tokens >= tokens: *)
ThreadCheck(th) ==
  /\ ThreadStep(th, "check")
  /\ threads' = [threads EXCEPT !.pc[th] = IF rate_limiter.tokens >= 1 * TokenScale
                                             THEN "subtract" ELSE "return_false"]
  /\ UNCHANGED rate_limiter

(* self.tokens -= tokens *)
ThreadSubtract(th) ==
  /\ ThreadStep(th, "subtract")
  /\ rate_limiter' = [rate_limiter EXCEPT !.tokens = @ - 1 * TokenScale]
  /\ threads' = [threads EXCEPT !.pc[th] = "return_true", !.granted[th] = @ + 1]

(* return True / return False, leaving the with block *)
ThreadReturn(th) ==
  /\ \/ ThreadStep(th, "return_true")
     \/ ThreadStep(th, "return_false")
  /\ threads' = [threads EXCEPT
                   !.pc[th] = "idle",
                   !.lock = IF @ = Some(th) THEN None ELSE @,
                   !.refused[th] = IF threads.pc[th] = "return_false" THEN @ + 1 ELSE @]
  /\ UNCHANGED rate_limiter

(* The clock advances by one second. *)
TickThreads ==
  /\ now + 1 <= MaxThreadTime
  /\ now' = now + 1
  /\ last' = [op |-> "tick"]
  /\ UNCHANGED <<rate_limiter, cache_manager, stats, threads>>

NextThreads ==
  \/ \E th \in Threads : ThreadCall(th)
  \/ \E th \in Threads : ThreadAcquire(th)
  \/ \E th \in Threads : ThreadRefill(th)
  \/ \E th \in Threads : ThreadCheck(th)
  \/ \E th \in Threads : ThreadSubtract(th)
  \/ \E th \in Threads : ThreadReturn(th)
  \/ TickThreads

SpecThreads == InitThreads /\ [][NextThreads]_vars

----------------------------------------------------------------------------
(* A CacheManager and its callers *)

(* What identifies a lookup: the endpoint and the params dict (two dicts   *)
(* with the same items are equal, whatever their insertion order).         *)
LookupId(req) == <<req.endpoint, {req.params[i] : i \in DOMAIN req.params}>>

LookupIds == {LookupId(req) : req \in Requests}

(* `last' records the latest call; `last.stored' maps a lookup to the      *)
(* (key, entry) stored for it that has not been evicted, overwritten or    *)
(* cleared since.                                                          *)
InitCache ==
  /\ now = 0
  /\ rate_limiter = TokenBucket(0, 0, 0)
  /\ \E max_size \in CacheSizes : cache_manager = CacheManager(max_size)
  /\ stats = [requests_made |-> 0, cache_hits |-> 0, rate_limit_hits |-> 0, errors |-> 0]
  /\ last = [op |-> "init", stored |-> [id \in LookupIds |-> None]]
  /\ threads = None

(* get(endpoint, params) *)
CacheGet(req) ==
  /\ LET key == generate_key(req.endpoint, req.params)
     IN key \in KnownKeys(cache_manager) \/ FirstUnknownKey(cache_manager, key)
  /\ \E r \in {cache_get(cache_manager, req.endpoint, req.params, now)} :
       /\ cache_manager' = r.cm
       /\ last' = [op |-> "get", req |-> req, t |-> now, pre |-> cache_manager,
                   entry |-> r.entry, key |-> r.key, stored |-> last.stored]
  /\ UNCHANGED <<now, rate_limiter, stats, threads>>

(* set(key, entry), with the key of a lookup and an entry fetched now *)
CacheSet(req, data) ==
  /\ LET key == generate_key(req.endpoint, req.params)
     IN key \in KnownKeys(cache_manager) \/ FirstUnknownKey(cache_manager, key)
  /\ \E key \in {generate_key(req.endpoint, req.params)} :
     \E entry \in {CacheEntry(data, now, None)} :
     \E s \in {cache_set(cache_manager, key, entry, now)} :
       /\ cache_manager' = s.cm
       /\ last' = [op |-> "set", req |-> req, t |-> now, pre |-> cache_manager,
                   entry |-> entry, key |-> key, raised |-> s.raised,
                   stored |-> [id \in LookupIds |->
                                IF s.raised # "none" THEN last.stored[id]
                                ELSE IF id = LookupId(req)
                                  THEN Some([key |-> key, entry |-> entry])
                                ELSE IF /\ last.stored[id] # None
                                        /\ last.stored[id][1].key \in DOMAIN s.cm.cache
                                  THEN last.stored[id]
                                ELSE None]]
  /\ UNCHANGED <<now, rate_limiter, stats, threads>>

(* clear() *)
CacheClear ==
  /\ cache_manager' = cache_clear(cache_manager)
  /\ last' = [op |-> "clear", stored |-> [id \in LookupIds |-> None]]
  /\ UNCHANGED <<now, rate_limiter, stats, threads>>

(* The clock advances between two calls. *)
TickCache(d) ==
  /\ now + d <= MaxCacheTime
  /\ now' = now + d
  /\ last' = [op |-> "tick", stored |-> last.stored]
  /\ UNCHANGED <<rate_limiter, cache_manager, stats, threads>>

NextCache ==
  \/ \E req \in Requests : CacheGet(req)
  \/ \E req \in Requests, data \in Payloads : CacheSet(req, data)
  \/ CacheClear
  \/ \E d \in CacheSteps : TickCache(d)

SpecCache == InitCache /\ [][NextCache]_vars

----------------------------------------------------------------------------
(* _generate_key and its callers *)

(* The params dicts a key is generated for, as lists of items in insertion *)
(* order.                                                                  *)
KeyParams ==
  { <<>>,
    << <<"from", "A">> >>, << <<"from", "B">> >>, << <<"to", "B">> >>,
    << <<"from", "A">>, <<"to", "B">> >>, << <<"to", "B">>, <<"from", "A">> >>,
    << <<"from", "A">>, <<"to", "C">> >>, << <<"to", "C">>, <<"from", "A">> >>,
    << <<"from", "B">>, <<"to", "A">> >> }

KeyRequests ==
  { [endpoint |-> e, params |-> p] : e \in {"/journeys", "/locations"}, p \in KeyParams }

(* `last' records the latest call and the one before it. *)
InitKeys ==
  /\ now = 0
  /\ rate_limiter = TokenBucket(0, 0, 0)
  /\ cache_manager = CacheManager(1)
  /\ stats = [requests_made |-> 0, cache_hits |-> 0, rate_limit_hits |-> 0, errors |-> 0]
  /\ last = [op |-> "init"]
  /\ threads = None

(* _generate_key(endpoint, params) *)
GenerateKey(req) ==
  /\ last' = [op |-> "generate_key", req |-> req,
              key |-> generate_key(req.endpoint, req.params),
              prev |-> IF last.op = "generate_key"
                         THEN Some([req |-> last.req, key |-> last.key]) ELSE None]
  /\ UNCHANGED <<now, rate_limiter, cache_manager, stats, threads>>

NextKeys == \E req \in KeyRequests : GenerateKey(req)

SpecKeys == InitKeys /\ [][NextKeys]_vars

----------------------------------------------------------------------------
(* A CacheEntry and its callers *)

(* `last.entry' is the entry; `last' records the latest evaluation of its  *)
(* two properties.                                                         *)
InitEntry ==
  /\ now = 0
  /\ rate_limiter = TokenBucket(0, 0, 0)
  /\ cache_manager = CacheManager(1)
  /\ stats = [requests_made |-> 0, cache_hits |-> 0, rate_limit_hits |-> 0, errors |-> 0]
  /\ \E cfg \in EntryConfigs :
       last = [op |-> "create", entry |-> CacheEntryWith("p1", 0, None, cfg[1], cfg[2])]
  /\ threads = None

(* CacheEntry(data=..., fetched_at=time.time(), ...) *)
CreateEntry(cfg) ==
  /\ last' = [op |-> "create", entry |-> CacheEntryWith("p1", now, None, cfg[1], cfg[2])]
  /\ UNCHANGED <<now, rate_limiter, cache_manager, stats, threads>>

(* entry.is_fresh, entry.is_stale_but_usable *)
EvaluateEntry ==
  /\ last' = [op |-> "evaluate", entry |-> last.entry, t |-> now,
              is_fresh |-> is_fresh(last.entry, now),
              is_stale_but_usable |-> is_stale_but_usable(last.entry, now)]
  /\ UNCHANGED <<now, rate_limiter, cache_manager, stats, threads>>

(* The clock advances between two evaluations. *)
TickEntry(d) ==
  /\ now + d <= MaxEntryTime
  /\ now' = now + d
  /\ last' = [op |-> "tick", entry |-> last.entry]
  /\ UNCHANGED <<rate_limiter, cache_manager, stats, threads>>

NextEntry ==
  \/ \E cfg \in EntryConfigs : CreateEntry(cfg)
  \/ EvaluateEntry
  \/ \E d \in EntrySteps : TickEntry(d)

SpecEntry == InitEntry /\ [][NextEntry]_vars

----------------------------------------------------------------------------
(* The classification of status codes and its callers *)

InitClassify ==
  /\ now = 0
  /\ rate_limiter = TokenBucket(0, 0, 0)
  /\ cache_manager = CacheManager(1)
  /\ stats = [requests_made |-> 0, cache_hits |-> 0, rate_limit_hits |-> 0, errors |-> 0]
  /\ last = [op |-> "init"]
  /\ threads = None

(* self._map_http_status_to_result_type(status_code) *)
Classify(status_code) ==
  /\ last' = [op |-> "classify", status_code |-> status_code,
              result_type |-> map_http_status_to_result_type(status_code)]
  /\ UNCHANGED <<now, rate_limiter, cache_manager, stats, threads>>

NextClassify == \E status_code \in 0..MaxStatus : Classify(status_code)

SpecClassify == InitClassify /\ [][NextClassify]_vars

----------------------------------------------------------------------------
(* The legacy methods and their callers *)

(* _make_request, find_locations, get_journeys, ...: one call of           *)
(* _make_request_with_cache (directly or through the *_resilient method),  *)
(* then `result.data if result.is_success else None'.  An exception that   *)
(* leaves the resilient call leaves the legacy method.                     *)
make_request(rl, cm, st, endpoint, params, t, outcome) ==
  LET r == make_request_with_cache(rl, cm, st, endpoint, params, t, outcome)
  IN [resilient |-> r,
      raised |-> r.raised,
      returned |-> IF r.raised # "none" \/ r.result = None THEN None
                   ELSE IF is_success(r.result[1]) THEN r.result[1].data
                   ELSE None]

LegacyRequest(req, outcome) ==
  /\ stats.requests_made < MaxRequests
  /\ LET key == generate_key(req.endpoint, req.params)
     IN key \in KnownKeys(cache_manager) \/ FirstUnknownKey(cache_manager, key)
  /\ \E l \in {make_request(rate_limiter, cache_manager, stats,
                            req.endpoint, req.params, now, outcome)} :
        /\ now' = now
        /\ rate_limiter' = l.resilient.rate_limiter
        /\ cache_manager' = l.resilient.cache_manager
        /\ stats' = l.resilient.stats
        /\ last' = [op |-> "legacy_request", t |-> now, pre_stats |-> stats,
                    cache_entry |-> l.resilient.cache_entry,
                    gets |-> l.resilient.gets,
                    outcome |-> IF l.resilient.gets = 1 THEN Some(outcome) ELSE None,
                    result |-> l.resilient.result,
                    raised |-> l.raised, returned |-> l.returned]
        /\ threads' = threads

NextLegacy ==
  \/ \E req \in Requests, outcome \in Outcomes : LegacyRequest(req, outcome)
  \/ \E d \in Steps : Tick(d)

SpecLegacy == Init /\ [][NextLegacy]_vars

----------------------------------------------------------------------------
(* The client called from several threads *)

ConcurrentRequests ==
  { [endpoint |-> "/journeys", params |-> << <<"from", "A">>, <<"to", "B">> >>],
    [endpoint |-> "/journeys", params |-> << <<"from", "A">>, <<"to", "C">> >>] }

ConcurrentOutcomes ==
  { Response(200, Some("p1"), Some("v1"), None, None),
    Response(200, Some("p2"), None, None, None),
    Response(304, None, None, None, None),
    Raised("Timeout") }

(* The locals of a thread that is in no call.  `pc' is the thread's        *)
(* position in _make_request_with_cache; `seq' numbers the calls in the    *)
(* order they were issued; `gets', `consumed' and `stored' record what the *)
(* call has done so far.                                                   *)
IdleThread ==
  [pc |-> "idle", req |-> None, seq |-> 0, cache_entry |-> None, cache_key |-> None,
   counter |-> "", read |-> 0, after |-> "", consumed |-> FALSE, gets |-> 0,
   retry_after |-> None, response |-> None, pending |-> None, stored |-> FALSE,
   raised |-> "none", result |-> None]

(* `threads.cache_lock' and `threads.bucket_lock' are the holders of       *)
(* CacheManager._lock and TokenBucket._lock; `calls', `completed', `gets'  *)
(* and `granted' count the calls issued and returned, the GETs sent and    *)
(* the successful consumes; `last_store' maps a key to the entry of the    *)
(* latest completed set.                                                   *)
InitConcurrent ==
  /\ now = 0
  /\ \E cfg \in ConcurrentConfigs :
       /\ rate_limiter = TokenBucket(cfg[1], (cfg[1] * TokenScale) \div cfg[2], 0)
       /\ cache_manager = CacheManager(cfg[3])
  /\ stats = [requests_made |-> 0, cache_hits |-> 0, rate_limit_hits |-> 0, errors |-> 0]
  /\ last = [op |-> "init"]
  /\ threads = [cache_lock |-> None, bucket_lock |-> None,
                local |-> [th \in Threads |-> IdleThread],
                calls |-> 0, completed |-> 0, gets |-> 0, granted |-> 0,
                last_store |-> <<>>]

Local(th) == threads.local[th]

(* self.stats[counter] += 1 is a read of the counter followed by a write   *)
(* of the value read plus one; the thread continues at `after'.            *)
increment(local, counter, after) ==
  [local EXCEPT !.pc = "inc_read", !.counter = counter, !.after = after]

(* The keys the cache manager or a call in progress knows.  Keys are       *)
(* interchangeable, so a call for a key that none of them knows uses the   *)
(* first such key of KeyOrder.                                             *)
KeysInUse ==
  KnownKeys(cache_manager)
    \cup { generate_key(threads.local[th].req[1].endpoint, threads.local[th].req[1].params) :
             th \in { t \in Threads : threads.local[t].req # None } }

FirstKeyNotInUse(key) ==
  \A i \in DOMAIN KeyOrder :
    KeyOrder[i] = key => \A j \in 1..(i - 1) : KeyOrder[j] \in KeysInUse

(* A thread calls _make_request_with_cache(endpoint, params). *)
ConcurrentCall(th, req) ==
  /\ Local(th).pc = "idle"
  /\ threads.calls < MaxConcurrentCalls
  /\ LET key == generate_key(req.endpoint, req.params)
     IN key \in KeysInUse \/ FirstKeyNotInUse(key)
  /\ threads' = [threads EXCEPT
                   !.calls = @ + 1,
                   !.local[th] = increment([IdleThread EXCEPT !.req = Some(req),
                                                             !.seq = threads.calls + 1],
                                           "requests_made", "cache_get")]
  /\ UNCHANGED <<now, rate_limiter, cache_manager, stats, last>>

IncRead(th) ==
  /\ Local(th).pc = "inc_read"
  /\ threads' = [threads EXCEPT !.local[th] =
                   [@ EXCEPT !.pc = "inc_write", !.read = stats[Local(th).counter]]]
  /\ UNCHANGED <<now, rate_limiter, cache_manager, stats, last>>

IncWrite(th) ==
  /\ Local(th).pc = "inc_write"
  /\ stats' = [stats EXCEPT ![Local(th).counter] = Local(th).read + 1]
  /\ threads' = [threads EXCEPT !.local[th] =
                   [@ EXCEPT !.pc = Local(th).after, !.read = 0,
                             !.counter = "", !.after = ""]]
  /\ UNCHANGED <<now, rate_limiter, cache_manager, last>>

(* self.cache_manager.get(endpoint, params): the body under the lock. *)
CacheGetAcquire(th) ==
  /\ Local(th).pc = "cache_get"
  /\ lock_acquirable(threads.cache_lock)
  /\ \E g \in {cache_get(cache_manager, Local(th).req[1].endpoint,
                          Local(th).req[1].params, now)} :
        /\ cache_manager' = g.cm
        /\ threads' = [threads EXCEPT
                         !.cache_lock = Some(th),
                         !.local[th] = [@ EXCEPT !.pc = "cache_get_release",
                                                 !.cache_entry = g.entry,
                                                 !.cache_key = g.key]]
  /\ UNCHANGED <<now, rate_limiter, stats, last>>

CacheGetRelease(th) ==
  /\ Local(th).pc = "cache_get_release"
  /\ threads' = [threads EXCEPT
                   !.cache_lock = lock_released(@),
                   !.local[th] = [@ EXCEPT !.pc = "check_fresh"]]
  /\ UNCHANGED <<now, rate_limiter, cache_manager, stats, last>>

(* if cache_entry and cache_entry.is_fresh *)
CheckFresh(th) ==
  /\ Local(th).pc = "check_fresh"
  /\ LET l == Local(th)
     IN threads' = [threads EXCEPT !.local[th] =
          IF l.cache_entry # None /\ is_fresh(l.cache_entry[1], now)
            THEN increment([l EXCEPT !.result = Some(cached_result(l.cache_entry[1]))],
                           "cache_hits", "return")
            ELSE [l EXCEPT !.pc = "consume"]]
  /\ UNCHANGED <<now, rate_limiter, cache_manager, stats, last>>

(* self.rate_limiter.consume(): the body under the lock. *)
ConsumeAcquire(th) ==
  /\ Local(th).pc = "consume"
  /\ lock_acquirable(threads.bucket_lock)
  /\ \E c \in {consume(rate_limiter, 1, now)} :
        /\ rate_limiter' = c.bucket
        /\ threads' = [threads EXCEPT
                         !.bucket_lock = Some(th),
                         !.granted = @ + (IF c.ok THEN 1 ELSE 0),
                         !.local[th] = [@ EXCEPT !.pc = "consume_release",
                                                 !.consumed = c.ok]]
  /\ UNCHANGED <<now, cache_manager, stats, last>>

ConsumeRelease(th) ==
  /\ Local(th).pc = "consume_release"
  /\ threads' = [threads EXCEPT
                   !.bucket_lock = lock_released(@),
                   !.local[th] = IF Local(th).consumed
                                   THEN [@ EXCEPT !.pc = "send"]
                                   ELSE increment(@, "rate_limit_hits",
                                                  "time_until_available")]
  /\ UNCHANGED <<now, rate_limiter, cache_manager, stats, last>>

(* self.rate_limiter.time_until_available(): the body under the lock. *)
TimeUntilAvailableAcquire(th) ==
  /\ Local(th).pc = "time_until_available"
  /\ lock_acquirable(threads.bucket_lock)
  /\ \E w \in {time_until_available(rate_limiter, 1)} :
        threads' = [threads EXCEPT
                     !.bucket_lock = Some(th),
                     !.local[th] = [@ EXCEPT
                        !.pc = "time_until_available_release",
                        !.raised = w.raised,
                        !.retry_after = IF w.raised = "none"
                                          THEN Some((w.num \div w.den) + 1)
                                          ELSE None]]
  /\ UNCHANGED <<now, rate_limiter, cache_manager, stats, last>>

TimeUntilAvailableRelease(th) ==
  /\ Local(th).pc = "time_until_available_release"
  /\ threads' = [threads EXCEPT
                   !.bucket_lock = lock_released(@),
                   !.local[th] = [@ EXCEPT !.pc = IF Local(th).raised = "none"
                                                    THEN "check_stale_limited"
                                                    ELSE "return"]]
  /\ UNCHANGED <<now, rate_limiter, cache_manager, stats, last>>

(* if cache_entry and cache_entry.is_stale_but_usable, after a rejection *)
CheckStaleLimited(th) ==
  /\ Local(th).pc = "check_stale_limited"
  /\ LET l == Local(th)
     IN threads' = [threads EXCEPT !.local[th] =
          IF has_usable_stale(l.cache_entry, now)
            THEN increment([l EXCEPT !.result = Some(cached_result(l.cache_entry[1]))],
                           "cache_hits", "return")
            ELSE [l EXCEPT !.pc = "return",
                           !.result = Some(APIResult(RATE_LIMITED, None,
                                                     Some("Rate limit exceeded"), None,
                                                     l.retry_after, FALSE, None))]]
  /\ UNCHANGED <<now, rate_limiter, cache_manager, stats, last>>

(* self.session.get(...) is called: the GET is in flight. *)
Send(th) ==
  /\ Local(th).pc = "send"
  /\ threads' = [threads EXCEPT
                   !.gets = @ + 1,
                   !.local[th] = [@ EXCEPT !.pc = "in_flight", !.gets = @ + 1]]
  /\ UNCHANGED <<now, rate_limiter, cache_manager, stats, last>>

(* session.get ends with `outcome': the branch taken and the entry to      *)
(* store, built with the time of this moment.                              *)
Receive(th, outcome) ==
  /\ Local(th).pc = "in_flight"
  /\ LET l == [Local(th) EXCEPT !.response = Some(outcome)]
     IN threads' = [threads EXCEPT !.local[th] =
          IF outcome.kind # "response"
            THEN increment(l, "errors", "check_stale_exception")
          ELSE IF outcome.status_code = 304 /\ l.cache_entry # None
            THEN [l EXCEPT !.pc = "cache_set",
                           !.pending = Some(refreshed_entry(l.cache_entry[1], now))]
          ELSE IF map_http_status_to_result_type(outcome.status_code) = SUCCESS
            THEN IF outcome.json = None
                   THEN [l EXCEPT !.pc = "return",
                                  !.result = Some(APIResult(TRANSIENT_ERROR, None,
                                                    Some("Invalid JSON response"),
                                                    Some(outcome.status_code), None,
                                                    FALSE, None))]
                   ELSE [l EXCEPT !.pc = "cache_set",
                                  !.pending = Some(CacheEntry(outcome.json[1], now,
                                                              outcome.etag))]
          ELSE increment(l, "errors", "check_stale_error")]
  /\ UNCHANGED <<now, rate_limiter, cache_manager, stats, last>>

(* self.cache_manager.set(cache_key, entry): the body under the lock. *)
CacheSetAcquire(th) ==
  /\ Local(th).pc = "cache_set"
  /\ lock_acquirable(threads.cache_lock)
  /\ \E s \in {cache_set(cache_manager, Local(th).cache_key, Local(th).pending[1], now)} :
        /\ cache_manager' = s.cm
        /\ threads' = [threads EXCEPT
                         !.cache_lock = Some(th),
                         !.last_store = IF s.raised = "none"
                                          THEN CachePut(@, Local(th).cache_key,
                                                        Local(th).pending[1])
                                          ELSE @,
                         !.local[th] = [@ EXCEPT !.pc = "cache_set_release",
                                                 !.raised = s.raised,
                                                 !.stored = (s.raised = "none")]]
  /\ UNCHANGED <<now, rate_limiter, stats, last>>

(* The lock is left and the result of the 304 branch or of the 2xx branch  *)
(* is built; a ValueError of set is caught in the 2xx branch only.         *)
CacheSetRelease(th) ==
  /\ Local(th).pc = "cache_set_release"
  /\ LET l == Local(th)
         response == l.response[1]
         not_modified == response.status_code = 304 /\ l.cache_entry # None
     IN threads' = [threads EXCEPT
          !.cache_lock = lock_released(@),
          !.local[th] =
            IF l.raised = "none"
              THEN [l EXCEPT !.pc = "return",
                             !.result =
                               IF not_modified
                                 THEN Some(APIResult(SUCCESS, Some(l.cache_entry[1].data),
                                                     None, None, None, TRUE,
                                                     Some(l.pending[1].fetched_at)))
                                 ELSE Some(APIResult(SUCCESS, response.json, None,
                                                     Some(response.status_code), None,
                                                     FALSE, None))]
            ELSE IF l.raised = "ValueError" /\ ~not_modified
              THEN [l EXCEPT !.pc = "return", !.raised = "none",
                             !.result = Some(APIResult(TRANSIENT_ERROR, None,
                                               Some("Invalid JSON response"),
                                               Some(response.status_code), None,
                                               FALSE, None))]
            ELSE [l EXCEPT !.pc = "return"]]
  /\ UNCHANGED <<now, rate_limiter, cache_manager, stats, last>>

(* The rest of an exception handler, after errors was incremented. *)
CheckStaleException(th) ==
  /\ Local(th).pc = "check_stale_exception"
  /\ LET l == Local(th)
     IN threads' = [threads EXCEPT !.local[th] =
          [l EXCEPT !.pc = "return",
                    !.result = Some(handle_exception(stats, l.cache_entry,
                                                     l.response[1].kind, now).result)]]
  /\ UNCHANGED <<now, rate_limiter, cache_manager, stats, last>>

(* The rest of the error-response branch, after errors was incremented. *)
CheckStaleError(th) ==
  /\ Local(th).pc = "check_stale_error"
  /\ LET l == Local(th)
     IN threads' = [threads EXCEPT !.local[th] =
          [l EXCEPT !.pc = "return",
                    !.result = handle_response(cache_manager, stats, l.cache_entry,
                                               l.cache_key, l.response[1], now).result]]
  /\ UNCHANGED <<now, rate_limiter, cache_manager, stats, last>>

(* The call returns its result, or the exception leaves it. *)
Return(th) ==
  /\ Local(th).pc = "return"
  /\ threads' = [threads EXCEPT !.completed = @ + 1, !.local[th] = IdleThread]
  /\ UNCHANGED <<now, rate_limiter, cache_manager, stats, last>>

TickConcurrent(d) ==
  /\ now + d <= MaxConcurrentTime
  /\ now' = now + d
  /\ UNCHANGED <<rate_limiter, cache_manager, stats, last, threads>>

NextConcurrent ==
  \/ \E th \in Threads, req \in ConcurrentRequests : ConcurrentCall(th, req)
  \/ \E th \in Threads : IncRead(th)
  \/ \E th \in Threads : IncWrite(th)
  \/ \E th \in Threads : CacheGetAcquire(th)
  \/ \E th \in Threads : CacheGetRelease(th)
  \/ \E th \in Threads : CheckFresh(th)
  \/ \E th \in Threads : ConsumeAcquire(th)
  \/ \E th \in Threads : ConsumeRelease(th)
  \/ \E th \in Threads : TimeUntilAvailableAcquire(th)
  \/ \E th \in Threads : TimeUntilAvailableRelease(th)
  \/ \E th \in Threads : CheckStaleLimited(th)
  \/ \E th \in Threads : Send(th)
  \/ \E th \in Threads, outcome \in ConcurrentOutcomes : Receive(th, outcome)
  \/ \E th \in Threads : CacheSetAcquire(th)
  \/ \E th \in Threads : CacheSetRelease(th)
  \/ \E th \in Threads : CheckStaleException(th)
  \/ \E th \in Threads : CheckStaleError(th)
  \/ \E th \in Threads : Return(th)
  \/ \E d \in ConcurrentSteps : TickConcurrent(d)

SpecConcurrent == InitConcurrent /\ [][NextConcurrent]_vars

----------------------------------------------------------------------------
(* What `last' says about the latest call *)

IsRequest == last.op = "request"

(* The call returned an APIResult (no exception left it). *)
Returned == IsRequest /\ last.raised = "none" /\ last.result # None

Res == last.result[1]

(* The lookup found an entry. *)
Found == IsRequest /\ last.cache_entry # None

Entry == last.cache_entry[1]

Age == last.t - Entry.fetched_at

FoundFresh == Found /\ Age < Entry.max_age

FoundUsableStale == Found /\ Age < Entry.max_age + Entry.stale_while_revalidate

(* The result is the Success built from the entry the lookup found. *)
IsStaleFallback ==
  /\ Returned
  /\ Res.result_type = SUCCESS
  /\ Res.from_cache
  /\ Res.data = Some(Entry.data)
  /\ Res.cached_at = Some(Entry.fetched_at)

(* A GET was issued and ended with a response / with an exception. *)
GotResponse == IsRequest /\ last.gets = 1 /\ last.outcome[1].kind = "response"

GotException == IsRequest /\ last.gets = 1 /\ last.outcome[1].kind # "response"

Status == last.outcome[1].status_code

(* The classification table of the specification. *)
Classified(kind) ==
  /\ GotResponse
  /\ kind = IF Status \in 200..299 THEN SUCCESS
            ELSE IF Status = 404 THEN NOT_FOUND
            ELSE IF Status = 429 THEN RATE_LIMITED
            ELSE IF Status \in 400..499 THEN PERMANENT_ERROR
            ELSE IF Status \in 500..599 THEN UPSTREAM_ERROR
            ELSE TRANSIENT_ERROR

FallbackEligibleStatus ==
  Classified(RATE_LIMITED) \/ Classified(UPSTREAM_ERROR) \/ Classified(TRANSIENT_ERROR)

----------------------------------------------------------------------------
(* C1: a request whose cache entry is fresh at lookup time returns Success *)
(* with the entry's payload, fromCache = true and cachedAt = fetchedAt,    *)
(* issues no GET and leaves the rate limiter (tokens, last_update) as it   *)
(* was.                                                                    *)
C1_FreshnessGate ==
  FoundFresh =>
    /\ IsStaleFallback
    /\ last.gets = 0
    /\ last.consumed = None
    /\ rate_limiter = last.pre_rate_limiter

C1_Witness ==
  /\ FoundFresh
  /\ Age > 0
  /\ Returned
  /\ Res.from_cache
  /\ last.pre_rate_limiter.tokens < last.pre_rate_limiter.capacity * TokenScale

(* C2: an entry of age in [maxAge, maxAge+staleWindow) is returned as      *)
(* Success(fromCache) when the GET fails with a fallback-eligible error (a *)
(* transport exception or a status classified RateLimited, UpstreamError   *)
(* or TransientError); an entry of age >= maxAge+staleWindow is returned   *)
(* by no fallback path, an error Result is returned instead.               *)
C2_StaleFallbackWindow ==
  LET failed == GotException \/ (FallbackEligibleStatus /\ Status # 304)
      rejected == IsRequest /\ last.consumed = Some(FALSE)
  IN /\ (Found /\ ~FoundFresh /\ FoundUsableStale /\ failed) => IsStaleFallback
     /\ (Found /\ ~FoundUsableStale /\ (failed \/ rejected)) =>
          (Returned /\ Res.result_type # SUCCESS /\ Res.data = None)

(* C3: every call returns a typed Result; no exception leaves             *)
(* _make_request_with_cache.                                               *)
C3_NeverRaises ==
  IsRequest =>
    /\ last.raised = "none"
    /\ last.result # None
    /\ Res.result_type \in APIResultType

(* C4: when the entry is not fresh and consume(1) fails, rate_limit_hits   *)
(* is incremented, no GET is issued, and the result is the stale Success   *)
(* if a usable-stale entry exists and RateLimited otherwise.               *)
C4_LimiterRejection ==
  (IsRequest /\ ~FoundFresh /\ last.consumed = Some(FALSE)) =>
    /\ stats.rate_limit_hits = last.pre_stats.rate_limit_hits + 1
    /\ last.gets = 0
    /\ Returned
    /\ IF FoundUsableStale THEN IsStaleFallback ELSE Res.result_type = RATE_LIMITED

(* C5 as stated: for every status classified RateLimited, UpstreamError or *)
(* TransientError, the result is the stale Success (cachedAt = the entry's *)
(* fetchedAt) if a usable-stale entry exists, and the classified error     *)
(* with the response's status otherwise.                                   *)
C5_ErrorStatusFallback ==
  FallbackEligibleStatus =>
    IF FoundUsableStale
      THEN IsStaleFallback
      ELSE /\ Returned
           /\ Classified(Res.result_type)
           /\ Res.http_status = Some(Status)
           /\ ~Res.from_cache

(* C5 amended: the same for every such status except a 304 received by a   *)
(* request whose lookup found an entry (that response refreshes the entry).*)
C5_ErrorStatusFallbackExcept304 ==
  (FallbackEligibleStatus /\ ~(Status = 304 /\ Found)) =>
    IF FoundUsableStale
      THEN IsStaleFallback
      ELSE /\ Returned
           /\ Classified(Res.result_type)
           /\ Res.http_status = Some(Status)
           /\ ~Res.from_cache

C5_Witness ==
  /\ Classified(UPSTREAM_ERROR)
  /\ FoundUsableStale
  /\ Age >= Entry.max_age
  /\ IsStaleFallback

(* C6: a response classified NotFound or PermanentError is returned as     *)
(* that error Result; cached data is never substituted for it.             *)
C6_NoFallbackForPermanent ==
  (Classified(NOT_FOUND) \/ Classified(PERMANENT_ERROR)) =>
    /\ Returned
    /\ Res.result_type = (IF Status = 404 THEN NOT_FOUND ELSE PERMANENT_ERROR)
    /\ Res.data = None
    /\ ~Res.from_cache
    /\ Res.http_status = Some(Status)

C6_Witness ==
  /\ Classified(NOT_FOUND) \/ Classified(PERMANENT_ERROR)
  /\ FoundUsableStale
  /\ Returned
  /\ Res.result_type \in {NOT_FOUND, PERMANENT_ERROR}

(* C7: whenever the GET raises a transport exception (timeout, connection  *)
(* failure or any other request exception), errors is incremented and the  *)
(* result is the stale Success if a usable-stale entry exists and          *)
(* TransientError otherwise.                                               *)
C7_TransportException ==
  GotException =>
    /\ stats.errors = last.pre_stats.errors + 1
    /\ IF FoundUsableStale
         THEN IsStaleFallback
         ELSE Returned /\ Res.result_type = TRANSIENT_ERROR

(* C8: after a 304 for a key with an existing entry the store holds for    *)
(* the key an entry with the same payload and validator and fetchedAt =    *)
(* now, and the result is Success(fromCache) with the unchanged payload    *)
(* and cachedAt = the refreshed fetchedAt.                                 *)
C8_NotModifiedRefresh ==
  (GotResponse /\ Status = 304 /\ Found) =>
    /\ last.cache_key \in DOMAIN cache_manager.cache
    /\ LET stored == cache_manager.cache[last.cache_key]
       IN /\ stored.data = Entry.data
          /\ stored.etag = Entry.etag
          /\ stored.fetched_at = last.t
          /\ Returned
          /\ Res.result_type = SUCCESS
          /\ Res.from_cache
          /\ Res.data = Some(Entry.data)
          /\ Res.cached_at = Some(stored.fetched_at)

C8_Witness ==
  /\ GotResponse /\ Status = 304 /\ Found
  /\ Entry.etag # None
  /\ last.if_none_match = Entry.etag
  /\ Entry.fetched_at < last.t
  /\ Returned
  /\ cache_manager.cache[last.cache_key].fetched_at = last.t

(* C9, first half: a 2xx response with a parseable body stores the entry   *)
(* (payload, fetchedAt = now, validator = the response's ETag) under the   *)
(* request's key and returns Success(fromCache = false, httpStatus).       *)
C9_StoredOn2xx ==
  (Classified(SUCCESS) /\ last.outcome[1].json # None) =>
    /\ Returned
    /\ Res.result_type = SUCCESS
    /\ ~Res.from_cache
    /\ Res.data = last.outcome[1].json
    /\ Res.http_status = Some(Status)
    /\ last.cache_key \in DOMAIN cache_manager.cache
    /\ LET stored == cache_manager.cache[last.cache_key]
       IN /\ Some(stored.data) = last.outcome[1].json
          /\ stored.fetched_at = last.t
          /\ stored.etag = last.outcome[1].etag

(* C9, second half: the same request repeated at once returns the same     *)
(* payload from the cache without a GET.                                   *)
C9_RepeatIsCached ==
  (/\ Classified(SUCCESS) /\ last.outcome[1].json # None
   /\ last'.op = "request"
   /\ last'.cache_key = last.cache_key
   /\ last'.t = last.t) =>
    /\ last'.raised = "none"
    /\ last'.result # None
    /\ last'.result[1].result_type = SUCCESS
    /\ last'.result[1].from_cache
    /\ last'.result[1].data = last.outcome[1].json
    /\ last'.gets = 0

(* C9: both halves, for every call. *)
C9_SuccessIsCached == [][C9_StoredOn2xx' /\ C9_RepeatIsCached]_vars

(* C10: a 2xx response whose body is no JSON yields TransientError and the *)
(* cache entry of the key (absent or present) is what it was before.       *)
C10_MalformedBodyNotCached ==
  (Classified(SUCCESS) /\ last.outcome[1].json = None) =>
    /\ Returned
    /\ Res.result_type = TRANSIENT_ERROR
    /\ Res.data = None
    /\ (last.cache_key \in DOMAIN cache_manager.cache) <=> Found
    /\ Found => cache_manager.cache[last.cache_key] = Entry

C10_Witness ==
  /\ Classified(SUCCESS) /\ last.outcome[1].json = None
  /\ Found
  /\ Returned
  /\ Res.result_type = TRANSIENT_ERROR

(* The integer the Retry-After header of the response spells, if any.      *)
RetryAfterHeaderSeconds ==
  IF last.outcome[1].retry_after = Some(<<"5">>) THEN Some(5)
  ELSE IF last.outcome[1].retry_after = Some(<<"1", "2">>) THEN Some(12)
  ELSE None

(* C11: a 429 response whose Retry-After header is an integer, received    *)
(* when no usable-stale entry exists for the key, yields RateLimited with  *)
(* retryAfterSeconds = that integer (Retry-After: 5 gives 5).              *)
C11_UpstreamRetryAfter ==
  (Classified(RATE_LIMITED) /\ ~FoundUsableStale /\ RetryAfterHeaderSeconds # None) =>
    /\ Returned
    /\ Res.result_type = RATE_LIMITED
    /\ Res.retry_after = RetryAfterHeaderSeconds
    /\ Res.http_status = Some(429)
    /\ ~Res.from_cache

C11_Witness ==
  /\ Classified(RATE_LIMITED)
  /\ last.outcome[1].retry_after = Some(<<"1", "2">>)
  /\ last.outcome[1].x_rate_limit_reset # None
  /\ Found /\ ~FoundUsableStale
  /\ Returned
  /\ Res.retry_after = Some(12)

----------------------------------------------------------------------------
(* What `last' says about the latest call on a bucket *)

IsConsume == last.op = "consume"

IsTimeUntilAvailable == last.op = "time_until_available"

(* The bucket before the call, and what lazy refill makes of its tokens at *)
(* the time of the call when nothing clamps them.                          *)
Pre == last.pre

Accrued == Pre.tokens + (last.t - Pre.last_update) * Pre.refill_rate

(* C12: whatever consume and time_until_available calls were made, and in  *)
(* whatever order, while the clock did not go back, 0 <= tokens <=         *)
(* capacity.                                                               *)
C12_TokenBounds ==
  /\ 0 <= rate_limiter.tokens
  /\ rate_limiter.tokens <= rate_limiter.capacity * TokenScale

C12_Witness ==
  /\ IsConsume
  /\ Accrued > Pre.capacity * TokenScale
  /\ Pre.tokens < Pre.capacity * TokenScale
  /\ \E i \in DOMAIN last.log : ~last.log[i].ok
  /\ rate_limiter.tokens <= rate_limiter.capacity * TokenScale

(* The tokens after lazy refill at the time of the call:                   *)
(* min(capacity, tokens + elapsed_seconds * refillRate).                   *)
Refilled ==
  IF Accrued <= Pre.capacity * TokenScale THEN Accrued ELSE Pre.capacity * TokenScale

(* C13: consume(n) sets lastRefillAt = now; it returns true iff the        *)
(* refilled tokens are >= n and then leaves refilled - n tokens; otherwise *)
(* it returns false and leaves the refilled tokens, which are no fewer     *)
(* than before the call.                                                   *)
C13_ConsumeEffect ==
  IsConsume =>
    /\ rate_limiter.last_update = last.t
    /\ last.ok <=> Refilled >= last.n * TokenScale
    /\ last.ok => rate_limiter.tokens = Refilled - last.n * TokenScale
    /\ ~last.ok => (rate_limiter.tokens = Refilled /\ rate_limiter.tokens >= Pre.tokens)
    /\ rate_limiter.capacity = Pre.capacity
    /\ rate_limiter.refill_rate = Pre.refill_rate

(* A consume that takes exactly the refilled amount, after a failed one    *)
(* that kept a fraction of a token.                                        *)
C13_Witness ==
  /\ IsConsume /\ last.ok
  /\ Refilled = last.n * TokenScale
  /\ Pre.last_update < last.t
  /\ \E i \in DOMAIN last.log :
       /\ ~last.log[i].ok
       /\ last.log[i].post.tokens > last.log[i].pre.tokens

----------------------------------------------------------------------------
(* What `last.log' says about the consume calls so far *)

Log == last.log

Capacity == rate_limiter.capacity

Rate == rate_limiter.refill_rate

(* The bucket was full when call i was made: lazy refill brings it to its  *)
(* capacity.                                                               *)
FullBefore(i) ==
  Log[i].pre.tokens + (Log[i].t - Log[i].pre.last_update) * Rate >= Capacity * TokenScale

(* Call i left the bucket empty. *)
EmptyAfter(i) == Log[i].post.tokens = 0

(* Calls i..j are single-token consumes made at the same time. *)
SinglesAt(i, j, t) == \A m \in i..j : Log[m].n = 1 /\ Log[m].t = t

(* Every call strictly between i and j failed. *)
OnlyFailuresBetween(i, j) == \A m \in (i + 1)..(j - 1) : ~Log[m].ok

(* Call j is made exactly `tokens' / R seconds after call i. *)
AdvanceFor(i, j, tokens) == (Log[j].t - Log[i].t) * Rate = tokens * TokenScale

(* C14, first part: from a full bucket C single-token consumes succeed and *)
(* the next one, with no clock advance, fails.                             *)
C14_FullBucket ==
  \A i \in DOMAIN Log : \A k \in 0..Capacity :
    (i + k \in DOMAIN Log /\ FullBefore(i) /\ SinglesAt(i, i + k, Log[i].t)) =>
      (Log[i + k].ok <=> k < Capacity)

(* C14, second part: 1/R seconds after the bucket was emptied exactly one  *)
(* single-token consume succeeds.                                          *)
C14_OneTokenAfterOneOverR ==
  \A i \in DOMAIN Log : \A j \in DOMAIN Log :
    (/\ i < j /\ Rate > 0 /\ Capacity >= 1
     /\ EmptyAfter(i) /\ OnlyFailuresBetween(i, j)
     /\ Log[j].n = 1 /\ AdvanceFor(i, j, 1)) =>
      /\ Log[j].ok
      /\ (j + 1 \in DOMAIN Log /\ SinglesAt(j + 1, j + 1, Log[j].t)) => ~Log[j + 1].ok

(* C14, third part: C/R seconds after the bucket was emptied C             *)
(* single-token consumes succeed again.                                    *)
C14_FullAfterCOverR ==
  \A i \in DOMAIN Log : \A k \in 1..Capacity :
    (/\ i + k \in DOMAIN Log /\ Rate > 0
     /\ EmptyAfter(i)
     /\ SinglesAt(i + 1, i + k, Log[i + 1].t)
     /\ AdvanceFor(i, i + 1, Capacity)) =>
      Log[i + k].ok

(* C14: token conservation, for capacity C and refill rate R > 0.          *)
C14_TokenConservation ==
  (Rate > 0) => (C14_FullBucket /\ C14_OneTokenAfterOneOverR /\ C14_FullAfterCOverR)

(* Capacity 2: emptied, then after C/R seconds two single-token consumes   *)
(* succeeded and the bucket is empty again.                                *)
C14_Witness ==
  /\ Capacity = 2 /\ Rate > 0
  /\ Len(Log) = 4
  /\ SinglesAt(1, 2, 0) /\ EmptyAfter(2)
  /\ SinglesAt(3, 4, Log[3].t) /\ AdvanceFor(2, 3, Capacity)
  /\ Log[3].ok /\ Log[4].ok

----------------------------------------------------------------------------
(* The value a time_until_available call returned, in seconds, is p/q. *)
WaitIs(p, q) ==
  /\ last.wait.raised = "none"
  /\ last.wait.num * q = p * last.wait.den

(* C15: time_until_available(n) returns 0 if the bucket holds n tokens and *)
(* otherwise (n - tokens) / refillRate, for refillRate > 0; the bucket is  *)
(* what it was before the call.                                            *)
C15_TimeUntilAvailable ==
  IsTimeUntilAvailable =>
    /\ Pre.tokens >= last.n * TokenScale => WaitIs(0, 1)
    /\ (Pre.tokens < last.n * TokenScale /\ Pre.refill_rate > 0) =>
         WaitIs(last.n * TokenScale - Pre.tokens, Pre.refill_rate)
    /\ rate_limiter = Pre

(* 2 seconds for 2 tokens on an empty bucket refilling at 1 token/s; and   *)
(* the call was made after consume calls, some time after the last one.    *)
C15_Witness ==
  /\ IsTimeUntilAvailable
  /\ last.n = 2 /\ Pre.tokens = 0 /\ Pre.refill_rate = TokenScale
  /\ WaitIs(2, 1)
  /\ Len(Log) >= 2
  /\ Pre.last_update < last.t

(* C16: on a bucket whose refillRate is 0 and which holds fewer than n     *)
(* tokens, time_until_available(n) returns a value (an infinite duration)  *)
(* and does not fail.                                                      *)
C16_ZeroRateReturns ==
  (IsTimeUntilAvailable /\ Pre.refill_rate = 0 /\ Pre.tokens < last.n * TokenScale) =>
    last.wait.raised = "none"

----------------------------------------------------------------------------
(* What `threads' says about the calls of the threads *)

RECURSIVE SumOver(_, _)
SumOver(f, S) ==
  IF S = {} THEN 0
  ELSE LET x == CHOOSE y \in S : TRUE IN f[x] + SumOver(f, S \ {x})

(* The consume(1) calls of all threads that took a token so far. *)
TotalGranted == SumOver(threads.granted, Threads)

(* The tokens there were to take: the initial capacity and what the bucket *)
(* refilled in the time elapsed since.                                     *)
TokensOffered == rate_limiter.capacity * TokenScale + now * rate_limiter.refill_rate

(* C17: when several threads call consume(1) concurrently, the successful  *)
(* consumes never number more than the initial capacity plus the tokens    *)
(* refilled over the elapsed time, and the bucket never holds less than 0. *)
C17_NoTokenGrantedTwice ==
  /\ TotalGranted * TokenScale <= TokensOffered
  /\ rate_limiter.tokens >= 0

(* A thread took the last token there was while the other one waits for    *)
(* the lock, after a refusal.                                              *)
C17_Witness ==
  \E th \in Threads : \E other \in Threads \ {th} :
    /\ threads.pc[th] = "return_true"
    /\ threads.lock = Some(th)
    /\ threads.pc[other] = "acquire"
    /\ threads.granted[other] >= 1
    /\ SumOver(threads.refused, Threads) >= 1
    /\ now > 0
    /\ TotalGranted * TokenScale = TokensOffered

----------------------------------------------------------------------------
(* What `last' says about the latest call on a cache manager *)

IsGet == last.op = "get"

IsSet == last.op = "set"

Cache == cache_manager.cache

PreCache == last.pre.cache

(* The access time recorded for a stored key before the call. *)
PreAccessTime(k) ==
  LET a == last.pre.access_times
  IN a[CHOOSE i \in DOMAIN a : a[i].key = k].time

(* The call is a store of a new key on a store that holds maxSize entries. *)
StoreOnFull ==
  /\ IsSet
  /\ last.key \notin DOMAIN PreCache
  /\ Cardinality(DOMAIN PreCache) = last.pre.max_size

(* C18: on a cache manager with max_size >= 1, whatever lookups, stores    *)
(* and clears were made, the number of stored entries is <= max_size.      *)
C18_CacheBound ==
  cache_manager.max_size >= 1 => Cardinality(DOMAIN Cache) <= cache_manager.max_size

C18_Witness ==
  /\ StoreOnFull
  /\ last.raised = "none"
  /\ cache_manager.max_size = 2
  /\ Cardinality(DOMAIN Cache) = 2
  /\ last.key \in DOMAIN Cache

(* C19: a store of a new key on a store that holds maxSize entries evicts  *)
(* exactly one existing entry, the stored key whose recorded access time   *)
(* is oldest, and then inserts the new entry; a store of a present key     *)
(* evicts nothing.                                                         *)
C19_LruEviction ==
  /\ StoreOnFull =>
       /\ last.raised = "none"
       /\ \E victim \in DOMAIN PreCache :
            /\ \A k \in DOMAIN PreCache : PreAccessTime(victim) <= PreAccessTime(k)
            /\ DOMAIN Cache = (DOMAIN PreCache \ {victim}) \cup {last.key}
       /\ Cache[last.key] = last.entry
       /\ \A k \in DOMAIN Cache \ {last.key} : Cache[k] = PreCache[k]
  /\ (IsSet /\ last.key \in DOMAIN PreCache) =>
       /\ last.raised = "none"
       /\ DOMAIN Cache = DOMAIN PreCache
       /\ Cache[last.key] = last.entry
       /\ \A k \in DOMAIN Cache \ {last.key} : Cache[k] = PreCache[k]

(* C20: a lookup(endpoint, params) returns the entry e and the key k of    *)
(* the latest store(k, e) made for that lookup, as long as the entry was   *)
(* not evicted or overwritten and the store not cleared since.             *)
C20_StoreReadRoundTrip ==
  (IsGet /\ last.stored[LookupId(last.req)] # None) =>
    /\ last.entry = Some(last.stored[LookupId(last.req)][1].entry)
    /\ last.key = last.stored[LookupId(last.req)][1].key

(* A lookup with the params in the other order, after the entry aged past  *)
(* max_age + stale_while_revalidate and other keys were looked up and      *)
(* stored.                                                                 *)
C20_Witness ==
  /\ IsGet
  /\ last.req.params = << <<"to", "B">>, <<"from", "A">> >>
  /\ last.entry # None
  /\ ~is_stale_but_usable(last.entry[1], last.t)
  /\ last.stored[LookupId(last.req)] # None
  /\ Cardinality(DOMAIN Cache) = 2
  /\ Len(cache_manager.access_times) = 3

----------------------------------------------------------------------------
(* What `last' says about the latest two calls of _generate_key *)

IsKeyPair == last.op = "generate_key" /\ last.prev # None

PrevKeyCall == last.prev[1]

ParamSet(params) == {params[i] : i \in DOMAIN params}

NamesOf(params) == {params[i][1] : i \in DOMAIN params}

(* C21: the same endpoint with the same parameter pairs, in any order,     *)
(* yields the same key; the same endpoint with the same parameter names    *)
(* and a different value for some of them yields a different key.          *)
C21_KeyDeterminism ==
  (IsKeyPair /\ last.req.endpoint = PrevKeyCall.req.endpoint) =>
    /\ ParamSet(last.req.params) = ParamSet(PrevKeyCall.req.params) =>
         last.key = PrevKeyCall.key
    /\ (/\ NamesOf(last.req.params) = NamesOf(PrevKeyCall.req.params)
        /\ ParamSet(last.req.params) # ParamSet(PrevKeyCall.req.params)) =>
         last.key # PrevKeyCall.key

(* The same pairs in another order gave the same key. *)
C21_Witness ==
  /\ IsKeyPair
  /\ last.req.endpoint = PrevKeyCall.req.endpoint
  /\ last.req.params # PrevKeyCall.req.params
  /\ ParamSet(last.req.params) = ParamSet(PrevKeyCall.req.params)
  /\ last.key = PrevKeyCall.key

(* C22: the lookup of a request never returns an entry whose age is        *)
(* >= maxAge + staleWindow; the request proceeds as a miss: no             *)
(* If-None-Match is sent and no result is built from the entry's payload.  *)
C22_AgedOutIsMiss ==
  IsRequest =>
    /\ Found => FoundUsableStale
    /\ (last.if_none_match # None) => FoundUsableStale
    /\ (Returned /\ Res.from_cache) => FoundUsableStale

----------------------------------------------------------------------------
(* What `last' says about the latest evaluation of an entry *)

IsEvaluation == last.op = "evaluate"

EntryAge == last.t - last.entry.fetched_at

(* C23: is_fresh <=> now - fetchedAt < maxAge and is_stale_but_usable <=>  *)
(* now - fetchedAt < maxAge + staleWindow; hence a fresh entry is          *)
(* usable-stale, and an entry of age exactly maxAge is not fresh but, for  *)
(* staleWindow > 0, usable-stale.                                          *)
C23_EntryPredicates ==
  IsEvaluation =>
    /\ last.is_fresh <=> EntryAge < last.entry.max_age
    /\ last.is_stale_but_usable <=>
         EntryAge < last.entry.max_age + last.entry.stale_while_revalidate
    /\ last.is_fresh => last.is_stale_but_usable
    /\ (EntryAge = last.entry.max_age /\ last.entry.stale_while_revalidate > 0) =>
         (~last.is_fresh /\ last.is_stale_but_usable)

(* An entry created after the clock started, evaluated at age exactly      *)
(* maxAge.                                                                 *)
C23_Witness ==
  /\ IsEvaluation
  /\ last.entry.fetched_at > 0
  /\ EntryAge = last.entry.max_age
  /\ last.entry.stale_while_revalidate > 0
  /\ ~last.is_fresh /\ last.is_stale_but_usable

----------------------------------------------------------------------------
(* What `last' says about the latest classification *)

IsClassification == last.op = "classify"

(* C24: classification is total and follows the table: 200-299 Success;    *)
(* 404 NotFound; 429 RateLimited; every other 400-499 PermanentError;      *)
(* 500-599 UpstreamError; every other status (1xx, 3xx, >= 600)            *)
(* TransientError.                                                         *)
C24_StatusClassification ==
  IsClassification =>
    LET code == last.status_code
        kind == last.result_type
    IN /\ kind \in APIResultType
       /\ (code \in 200..299) => kind = SUCCESS
       /\ (code = 404) => kind = NOT_FOUND
       /\ (code = 429) => kind = RATE_LIMITED
       /\ (code \in 400..499 /\ code \notin {404, 429}) => kind = PERMANENT_ERROR
       /\ (code \in 500..599) => kind = UPSTREAM_ERROR
       /\ (code \notin 200..299 /\ code \notin 400..599) => kind = TRANSIENT_ERROR

(* A status of 600 or more is classified, as a transient error.            *)
C24_Witness ==
  /\ IsClassification
  /\ last.status_code >= 600
  /\ last.result_type = TRANSIENT_ERROR

(* C25: on every result a request returns, is_success is true exactly for  *)
(* Success; should_retry and can_fallback_to_cache are true exactly for    *)
(* RateLimited, UpstreamError and TransientError (false for Success,       *)
(* NotFound and PermanentError); so should_retry is false whenever         *)
(* is_success is true.                                                     *)
C25_ResultFlags ==
  Returned =>
    /\ Res.result_type \in APIResultType
    /\ is_success(Res) <=> Res.result_type = SUCCESS
    /\ should_retry(Res) <=>
         Res.result_type \in {RATE_LIMITED, UPSTREAM_ERROR, TRANSIENT_ERROR}
    /\ can_fallback_to_cache(Res) <=>
         Res.result_type \in {RATE_LIMITED, UPSTREAM_ERROR, TRANSIENT_ERROR}
    /\ (Res.result_type \in {SUCCESS, NOT_FOUND, PERMANENT_ERROR}) =>
         (~should_retry(Res) /\ ~can_fallback_to_cache(Res))
    /\ is_success(Res) => ~should_retry(Res)

(* A request answered 500 with no entry to fall back on returns an         *)
(* UpstreamError result, whose should_retry and can_fallback_to_cache are  *)
(* true and whose is_success is false.                                     *)
C25_Witness ==
  /\ Returned
  /\ GotResponse /\ Status = 500
  /\ ~Found
  /\ Res.result_type = UPSTREAM_ERROR
  /\ should_retry(Res) /\ can_fallback_to_cache(Res) /\ ~is_success(Res)

(* C26, clear(): right after it both maps are empty and the size is 0.     *)
C26_ClearEmptiesBoth ==
  (last'.op = "clear_cache") =>
    /\ cache_manager'.cache = <<>>
    /\ cache_manager'.access_times = <<>>
    /\ Cardinality(DOMAIN cache_manager'.cache) = 0

(* C26, until the next store: a request made while the entry map is empty  *)
(* finds no entry, asks the rate limiter, issues the GET when the limiter  *)
(* grants a token and returns nothing from the cache; the entry map stays  *)
(* empty unless the step is a request whose GET was answered.              *)
C26_MissUntilStore ==
  (cache_manager.cache = <<>>) =>
    /\ (last'.op = "request") =>
         /\ last'.cache_entry = None
         /\ last'.if_none_match = None
         /\ last'.consumed # None
         /\ (last'.consumed = Some(TRUE)) => last'.gets = 1
         /\ (last'.result # None) => ~last'.result[1].from_cache
    /\ (cache_manager'.cache # <<>>) =>
         /\ last'.op = "request"
         /\ last'.gets = 1
         /\ last'.outcome[1].kind = "response"
         /\ DOMAIN cache_manager'.cache = {last'.cache_key}

(* C26: clear() empties both maps, the size is 0 and every lookup misses   *)
(* until the next store, so that a request for a key that was cached and   *)
(* fresh goes to the rate limiter and the network again.                   *)
C26_ClearCache == [][C26_ClearEmptiesBoth /\ C26_MissUntilStore]_vars

(* The third request at time 0, after a store and a fresh hit of the same  *)
(* key: it finds nothing (the cache was cleared in between) and issues a   *)
(* GET.                                                                    *)
C26_Witness ==
  /\ IsRequest
  /\ last.t = 0
  /\ last.pre_stats.requests_made = 2
  /\ last.pre_stats.cache_hits = 1
  /\ last.cache_key = KeyOrder[1]
  /\ ~Found
  /\ last.consumed = Some(TRUE)
  /\ last.gets = 1

----------------------------------------------------------------------------
(* What `last' says about the latest call of a legacy method *)

IsLegacyRequest == last.op = "legacy_request"

LegacyResult == last.result[1]

(* C27: a legacy method performs exactly one resilient request             *)
(* (requests_made grows by one, at most one GET) and returns that result's *)
(* data when the result is a Success (fresh, cached or stale fallback) and *)
(* None for every other result.                                            *)
C27_LegacyReturn ==
  IsLegacyRequest =>
    /\ stats.requests_made = last.pre_stats.requests_made + 1
    /\ last.gets <= 1
    /\ (last.raised = "none") =>
         /\ last.result # None
         /\ (LegacyResult.result_type = SUCCESS) =>
              (last.returned = LegacyResult.data /\ last.returned # None)
         /\ (LegacyResult.result_type # SUCCESS) => last.returned = None

(* A legacy call whose GET failed returns the data of the stale entry.     *)
C27_Witness ==
  /\ IsLegacyRequest
  /\ last.raised = "none"
  /\ last.gets = 1
  /\ last.outcome[1].kind # "response"
  /\ last.cache_entry # None
  /\ LegacyResult.result_type = SUCCESS
  /\ LegacyResult.from_cache
  /\ last.returned = Some(last.cache_entry[1].data)

----------------------------------------------------------------------------
(* What `threads' says about the calls of the threads of a client *)

(* The thread is in a call whose GET has been sent and has not ended. *)
InFlight(th) == threads.local[th].pc = "in_flight"

(* C28: a call issues at most one GET, and only after its own consume      *)
(* succeeded; over every interleaving the GETs issued are at most the      *)
(* successful consumes, which are at most capacity + refill rate *         *)
(* elapsed time.                                                           *)
C28_NoRetryLoop ==
  /\ \A th \in Threads :
       /\ threads.local[th].gets <= 1
       /\ (threads.local[th].gets = 1 \/ InFlight(th)) => threads.local[th].consumed
  /\ threads.gets <= threads.granted
  /\ threads.granted * TokenScale
       <= rate_limiter.capacity * TokenScale + rate_limiter.refill_rate * now

(* At time 0 as many GETs as the capacity were issued, one is still in     *)
(* flight, and the call of the other thread was refused by the limiter     *)
(* and returns RateLimited without a GET.                                  *)
C28_Witness ==
  /\ now = 0
  /\ threads.gets = rate_limiter.capacity
  /\ threads.granted = threads.gets
  /\ \E a, b \in Threads :
       /\ InFlight(a)
       /\ threads.local[b].pc = "return"
       /\ threads.local[b].result # None
       /\ threads.local[b].result[1].result_type = RATE_LIMITED
       /\ threads.local[b].gets = 0
       /\ ~threads.local[b].consumed

(* C29: the entry stored for a key is the whole entry written by the set   *)
(* that completed last for that key, whatever the order in which the calls *)
(* were issued; it is never a mixture of two writes.                       *)
C29_LastWriteWins ==
  \A key \in DOMAIN cache_manager.cache :
    /\ key \in DOMAIN threads.last_store
    /\ cache_manager.cache[key] = threads.last_store[key]

(* Two calls for one key ran concurrently; the one issued later got a 2xx  *)
(* and stored first, the one issued earlier got a 304 and stored last: the *)
(* cache holds the refreshed entry of the earlier call.                    *)
C29_Witness ==
  \E a, b \in Threads :
    /\ threads.local[a].seq < threads.local[b].seq
    /\ threads.local[a].cache_key = threads.local[b].cache_key
    /\ threads.local[b].pc = "return" /\ threads.local[b].stored
    /\ threads.local[b].response[1].status_code = 200
    /\ threads.local[a].pc = "cache_set_release" /\ threads.local[a].stored
    /\ threads.local[a].response[1].status_code = 304
    /\ threads.local[a].pending # threads.local[b].pending
    /\ threads.local[a].cache_key \in DOMAIN cache_manager.cache
    /\ cache_manager.cache[threads.local[a].cache_key] = threads.local[a].pending[1]

(* C30: no thread holds the rate-limiter lock or the cache lock while its  *)
(* GET is in flight, and no thread holds both locks at once: a lock is     *)
(* held only inside get, set, consume or time_until_available, so a call   *)
(* waiting for its response keeps no other thread from a lookup, a store   *)
(* or a consume.                                                           *)
C30_NetworkOutsideLocks ==
  /\ \A th \in Threads :
       /\ InFlight(th) =>
            (threads.cache_lock # Some(th) /\ threads.bucket_lock # Some(th))
       /\ ~(threads.cache_lock = Some(th) /\ threads.bucket_lock = Some(th))
       /\ (threads.cache_lock = Some(th)) =>
            threads.local[th].pc \in {"cache_get_release", "cache_set_release"}
       /\ (threads.bucket_lock = Some(th)) =>
            threads.local[th].pc \in {"consume_release", "time_until_available_release"}
  /\ \A a, b \in Threads :
       (InFlight(a) /\ \A th \in Threads \ {b} : InFlight(th) \/ threads.local[th].pc = "idle") =>
         /\ (threads.local[b].pc \in {"cache_get", "cache_set"}) =>
              lock_acquirable(threads.cache_lock)
         /\ (threads.local[b].pc \in {"consume", "time_until_available"}) =>
              lock_acquirable(threads.bucket_lock)

(* While the GET of one thread is in flight, another thread is inside set  *)
(* for the same key, holding the cache lock.                               *)
C30_Witness ==
  \E a, b \in Threads :
    /\ InFlight(a)
    /\ threads.local[b].pc = "cache_set_release"
    /\ threads.cache_lock = Some(b)
    /\ threads.bucket_lock = None
    /\ threads.local[a].cache_key = threads.local[b].cache_key

----------------------------------------------------------------------------
(* The conditional GET *)

(* C31 as stated: a GET carries If-None-Match = v exactly when the lookup  *)
(* returned an entry (not fresh) whose validator is v; with no entry or no *)
(* validator the header is absent.                                         *)
C31_ConditionalGet ==
  IsRequest =>
    /\ (last.gets = 0) => last.if_none_match = None
    /\ (last.gets = 1) =>
         /\ ~FoundFresh
         /\ last.if_none_match = (IF Found THEN Entry.etag ELSE None)

(* C31, amended: a GET carries If-None-Match = v exactly when the lookup   *)
(* returned an entry (not fresh) whose validator is the non-empty string   *)
(* v; with no entry, no validator or an empty validator the header is      *)
(* absent.                                                                 *)
C31_ConditionalGetNonEmpty ==
  IsRequest =>
    /\ (last.gets = 0) => last.if_none_match = None
    /\ (last.gets = 1) =>
         /\ ~FoundFresh
         /\ last.if_none_match =
              (IF Found /\ Entry.etag # Some("") THEN Entry.etag ELSE None)

(* A GET for a stale entry stored with an empty ETag carries no header.    *)
C31_Witness ==
  /\ IsRequest
  /\ Found /\ ~FoundFresh
  /\ Entry.etag = Some("")
  /\ last.gets = 1
  /\ last.if_none_match = None

----------------------------------------------------------------------------
(* The retry hint of the local limiter *)

(* The request was refused by the local limiter and returned RateLimited.  *)
RefusedByLimiter ==
  /\ IsRequest
  /\ last.consumed = Some(FALSE)
  /\ Returned
  /\ Res.result_type = RATE_LIMITED

(* ceil(num / den) for num >= 0, den > 0 *)
Ceil(num, den) == (num + den - 1) \div den

(* C32: a RateLimited result of the local limiter carries                  *)
(* retryAfterSeconds = ceil(timeUntilAvailable(1)), also when the wait is  *)
(* a whole number of seconds.                                              *)
C32_RetryAfterIsCeil ==
  RefusedByLimiter =>
    LET wait == time_until_available(rate_limiter, 1)
    IN /\ wait.raised = "none"
       /\ Res.retry_after = Some(Ceil(wait.num, wait.den))

----------------------------------------------------------------------------
(* The statistics *)

(* The request ended in a transport exception, in a 2xx response whose     *)
(* body is no JSON, or in a status other than 2xx and 304.                 *)
EndedInError ==
  \/ GotException
  \/ GotResponse /\ Classified(SUCCESS) /\ last.outcome[1].json = None
  \/ GotResponse /\ ~Classified(SUCCESS) /\ Status # 304

(* C33: errors is incremented exactly once by every request that ended in  *)
(* an error, with or without a stale fallback, and by no other request.    *)
C33_ErrorsCountedOnce ==
  IsRequest =>
    stats.errors = last.pre_stats.errors + (IF EndedInError THEN 1 ELSE 0)

(* Every call issued has returned. *)
AllReturned == \A th \in Threads : threads.local[th].pc = "idle"

(* C34: after N calls have completed, sequentially or interleaved across   *)
(* threads, requests_made has increased by exactly N.                      *)
C34_NoLostIncrement ==
  AllReturned => stats.requests_made = threads.completed

(* C35: cache_hits is incremented by the requests answered from a fresh    *)
(* entry, and by no other request: no stale fallback, after a limiter      *)
(* rejection, an error status or a transport exception, increments it.     *)
C35_CacheHitsOnlyFresh ==
  IsRequest =>
    stats.cache_hits = last.pre_stats.cache_hits + (IF FoundFresh THEN 1 ELSE 0)

----------------------------------------------------------------------------
(* Failures and the life of an entry *)

(* The request met a failure: the limiter refused it, or its GET ended in  *)
(* a transport exception, an unparseable 2xx body or an error status.      *)
MetFailure == IsRequest /\ (last.consumed = Some(FALSE) \/ EndedInError)

(* C36, frame: a request that met a failure, whether it ended in a stale   *)
(* fallback or in an error Result, leaves every stored entry (payload,     *)
(* validator, fetchedAt) as it was.                                        *)
C36_FailureKeepsEntries ==
  MetFailure' => cache_manager'.cache = cache_manager.cache

(* C36, consequence: a request that met a failure and found an entry of    *)
(* age >= maxAge + staleWindow does not serve it: an error Result is       *)
(* returned.                                                               *)
C36_AgedEntryNotServed ==
  (MetFailure /\ Found /\ Age >= Entry.max_age + Entry.stale_while_revalidate) =>
    /\ Returned
    /\ Res.result_type # SUCCESS
    /\ ~Res.from_cache
    /\ Res.data = None

(* C36: failures never extend an entry's life. *)
C36_FailuresNeverExtendLife ==
  [][C36_FailureKeepsEntries /\ C36_AgedEntryNotServed']_vars

(* The GET for an entry that has reached maxAge + staleWindow raised; an   *)
(* error Result is returned and the entry is stored as it was.             *)
C36_Witness ==
  /\ GotException
  /\ Found
  /\ Age >= Entry.max_age + Entry.stale_while_revalidate
  /\ Returned
  /\ Res.result_type = TRANSIENT_ERROR
  /\ last.cache_key \in DOMAIN cache_manager.cache
  /\ cache_manager.cache[last.cache_key] = Entry

----------------------------------------------------------------------------
(* The victim of an eviction *)

(* C37: whenever a store has to evict, the key it selects (the key of the  *)
(* oldest recorded access time) is present in the entry map, also after    *)
(* lookups that missed; the store completes and the new entry is stored.   *)
C37_VictimIsStored ==
  /\ StoreOnFull => oldest_key(last.pre.access_times) \in DOMAIN PreCache
  /\ IsSet =>
       /\ last.raised = "none"
       /\ last.key \in DOMAIN Cache
       /\ Cache[last.key] = last.entry

----------------------------------------------------------------------------
(* The 304 refresh *)

(* C38: a 304 refresh changes only fetchedAt: the entry it stores keeps    *)
(* the maxAge and staleWindow, the payload and the validator of the entry  *)
(* it replaces.                                                            *)
C38_RefreshKeepsDurations ==
  (GotResponse /\ Status = 304 /\ Found /\ Returned) =>
    /\ last.cache_key \in DOMAIN cache_manager.cache
    /\ LET stored == cache_manager.cache[last.cache_key]
       IN /\ stored.data = Entry.data
          /\ stored.etag = Entry.etag
          /\ stored.max_age = Entry.max_age
          /\ stored.stale_while_revalidate = Entry.stale_while_revalidate

----------------------------------------------------------------------------
(* The retry hint *)

(* The latest call followed a refusal by the limiter, with no call in      *)
(* between, after the clock had advanced by at least the hinted number of  *)
(* seconds, and got as far as the limiter.                                 *)
RetriedAfterHint ==
  /\ IsRequest
  /\ last.follows # None
  /\ last.t >= last.follows[1].t + last.follows[1].retry_after
  /\ last.consumed # None

(* C39: the retry hint is sufficient: a request refused by the limiter     *)
(* with retry_after = r, followed after r seconds, with no consumption in  *)
(* between, by a request, has that request admitted by the limiter.        *)
C39_RetryHintSufficient ==
  RetriedAfterHint => last.consumed = Some(TRUE)

C39_Witness ==
  /\ RetriedAfterHint
  /\ last.t = last.follows[1].t + last.follows[1].retry_after
  /\ last.pre_rate_limiter.tokens > 0
  /\ last.pre_rate_limiter.tokens < TokenScale
  /\ last.consumed = Some(TRUE)

----------------------------------------------------------------------------
(* The memory and disk caching layer (better_bahn_cache.py) *)

(* <<enable_memory_cache, memory_cache_ttl, memory_cache_max_size,         *)
(*   enable_disk_cache, disk_cache_ttl>>                                   *)
LayerConfigs ==
  { <<TRUE, 1, 1, FALSE, 3>>, <<TRUE, 1, 2, TRUE, 3>>,
    <<FALSE, 1, 1, TRUE, 3>>, <<FALSE, 1, 1, FALSE, 3>> }

LayerKeys == {"k1", "k2"}

(* The ttl arguments of set: absent, 0 and a number of seconds. *)
LayerTTLs == {None, Some(0), Some(2)}

(* better_bahn_cache.CacheEntry, created at time t with the defaults of    *)
(* access_count and last_access.                                           *)
TTLCacheEntry(data, timestamp, ttl_seconds) ==
  [data |-> data, timestamp |-> timestamp, ttl_seconds |-> ttl_seconds,
   access_count |-> 0, last_access |-> 0]

is_expired(entry, t) == t - entry.timestamp > entry.ttl_seconds

(* entry.access() at time t *)
access(entry, t) == [entry EXCEPT !.access_count = @ + 1, !.last_access = t]

Remove(f, key) == [k \in DOMAIN f \ {key} |-> f[k]]

(* `ttl or default_ttl': None and 0 both give the default. *)
ttl_or(ttl, default_ttl) ==
  IF ttl = None \/ ttl = Some(0) THEN default_ttl ELSE ttl[1]

MemoryCache(max_size, default_ttl) ==
  [max_size |-> max_size, default_ttl |-> default_ttl, cache |-> <<>>,
   access_order |-> <<>>, hits |-> 0, misses |-> 0, evictions |-> 0]

(* MemoryCache.get at time t *)
MemoryCache_get(mc, key, t) ==
  IF key \notin DOMAIN mc.cache
    THEN [mc |-> [mc EXCEPT !.misses = @ + 1], result |-> None]
  ELSE IF is_expired(mc.cache[key], t)
    THEN [mc |-> [mc EXCEPT !.cache = Remove(mc.cache, key),
                            !.access_order = AccessTimeDel(mc.access_order, key),
                            !.misses = @ + 1, !.evictions = @ + 1],
          result |-> None]
  ELSE [mc |-> [mc EXCEPT !.access_order = AccessTimeSet(mc.access_order, key, t),
                          !.hits = @ + 1,
                          !.cache = [@ EXCEPT ![key] = access(@, t)]],
        result |-> Some(mc.cache[key].data)]

RECURSIVE evict_expired_from(_, _, _)
evict_expired_from(mc, keys, t) ==
  IF keys = {} THEN mc
  ELSE LET key == CHOOSE k \in keys : TRUE
       IN evict_expired_from([mc EXCEPT !.cache = Remove(mc.cache, key),
                                        !.access_order = AccessTimeDel(mc.access_order, key),
                                        !.evictions = @ + 1],
                             keys \ {key}, t)

(* MemoryCache._evict_expired at time t *)
evict_expired(mc, t) ==
  evict_expired_from(mc, {k \in DOMAIN mc.cache : is_expired(mc.cache[k], t)}, t)

(* MemoryCache._evict_lru *)
RECURSIVE evict_lru(_)
evict_lru(mc) ==
  IF Cardinality(DOMAIN mc.cache) >= mc.max_size /\ mc.access_order # <<>>
    THEN LET key == oldest_key(mc.access_order)
         IN evict_lru([mc EXCEPT !.cache = Remove(mc.cache, key),
                                 !.access_order = AccessTimeDel(mc.access_order, key),
                                 !.evictions = @ + 1])
    ELSE mc

(* MemoryCache.set at time t *)
MemoryCache_set(mc, key, value, ttl, t) ==
  LET ttl_seconds == ttl_or(ttl, mc.default_ttl)
      mc1 == evict_expired(mc, t)
      mc2 == IF key \notin DOMAIN mc1.cache THEN evict_lru(mc1) ELSE mc1
      entry == TTLCacheEntry(value, t, ttl_seconds)
  IN [mc2 EXCEPT
        !.cache = [k \in DOMAIN mc2.cache \cup {key} |->
                     IF k = key THEN entry ELSE mc2.cache[k]],
        !.access_order = AccessTimeSet(mc2.access_order, key, t)]

DiskCache(default_ttl) ==
  [default_ttl |-> default_ttl, files |-> <<>>, hits |-> 0, misses |-> 0]

(* DiskCache.get at time t: entry.access() changes the loaded copy only.   *)
DiskCache_get(dc, key, t) ==
  IF key \notin DOMAIN dc.files
    THEN [dc |-> [dc EXCEPT !.misses = @ + 1], result |-> None]
  ELSE IF is_expired(dc.files[key], t)
    THEN [dc |-> [dc EXCEPT !.files = Remove(dc.files, key), !.misses = @ + 1],
          result |-> None]
  ELSE [dc |-> [dc EXCEPT !.hits = @ + 1], result |-> Some(dc.files[key].data)]

(* DiskCache.set at time t *)
DiskCache_set(dc, key, value, ttl, t) ==
  LET entry == TTLCacheEntry(value, t, ttl_or(ttl, dc.default_ttl))
  IN [dc EXCEPT !.files = [k \in DOMAIN dc.files \cup {key} |->
                             IF k = key THEN entry ELSE dc.files[k]]]

(* better_bahn_cache.CacheManager(config) *)
LayeredCacheManager(cfg) ==
  [memory_cache_ttl |-> cfg[2],
   memory_cache |-> IF cfg[1] THEN Some(MemoryCache(cfg[3], cfg[2])) ELSE None,
   disk_cache |-> IF cfg[4] THEN Some(DiskCache(cfg[5])) ELSE None]

Found_in(source, data) ==
  Some([data |-> data, metadata |-> [source |-> source, fresh |-> TRUE]])

(* CacheManager._get_stale *)
get_stale(cm, key) == None

(* CacheManager.get(key, use_stale) at time t *)
LayeredCacheManager_get(cm, key, use_stale, t) ==
  LET m == IF cm.memory_cache # None
             THEN MemoryCache_get(cm.memory_cache[1], key, t)
             ELSE [mc |-> None, result |-> None]
      cm1 == IF cm.memory_cache # None
               THEN [cm EXCEPT !.memory_cache = Some(m.mc)] ELSE cm
  IN IF m.result # None
       THEN [cm |-> cm1, result |-> Found_in("memory_cache", m.result[1])]
     ELSE LET d == IF cm1.disk_cache # None
                     THEN DiskCache_get(cm1.disk_cache[1], key, t)
                     ELSE [dc |-> None, result |-> None]
              cm2 == IF cm1.disk_cache # None
                       THEN [cm1 EXCEPT !.disk_cache = Some(d.dc)] ELSE cm1
          IN IF d.result # None
               THEN [cm |-> IF cm2.memory_cache # None
                              THEN [cm2 EXCEPT !.memory_cache =
                                      Some(MemoryCache_set(cm2.memory_cache[1], key,
                                                           d.result[1],
                                                           Some(cm2.memory_cache_ttl), t))]
                              ELSE cm2,
                     result |-> Found_in("disk_cache", d.result[1])]
             ELSE IF use_stale
               THEN [cm |-> cm2, result |-> get_stale(cm2, key)]
             ELSE [cm |-> cm2, result |-> None]

(* CacheManager.set(key, value, memory_ttl, disk_ttl) at time t *)
LayeredCacheManager_set(cm, key, value, memory_ttl, disk_ttl, t) ==
  LET cm1 == IF cm.memory_cache # None
               THEN [cm EXCEPT !.memory_cache =
                       Some(MemoryCache_set(cm.memory_cache[1], key, value, memory_ttl, t))]
               ELSE cm
  IN IF cm1.disk_cache # None
       THEN [cm1 EXCEPT !.disk_cache =
               Some(DiskCache_set(cm1.disk_cache[1], key, value, disk_ttl, t))]
       ELSE cm1

(* The longest time-to-live that set(key, value, memory_ttl, disk_ttl)     *)
(* gives the value in the caches that are enabled.                         *)
stored_ttl(cm, memory_ttl, disk_ttl) ==
  Max(IF cm.memory_cache # None
        THEN ttl_or(memory_ttl, cm.memory_cache[1].default_ttl) ELSE 0,
      IF cm.disk_cache # None
        THEN ttl_or(disk_ttl, cm.disk_cache[1].default_ttl) ELSE 0)

(* The caching layer and its callers.  stats counts the calls made;        *)
(* last.stored remembers, for every key, what was stored for it last.      *)
InitLayer ==
  /\ now = 0
  /\ \E cfg \in LayerConfigs : cache_manager = LayeredCacheManager(cfg)
  /\ stats = [calls |-> 0]
  /\ last = [op |-> "init", stored |-> <<>>]
  /\ rate_limiter = None
  /\ threads = None

LayerGet(key, use_stale) ==
  /\ stats.calls < MaxLayerCalls
  /\ \E r \in {LayeredCacheManager_get(cache_manager, key, use_stale, now)} :
        /\ cache_manager' = r.cm
        /\ last' = [op |-> "get", key |-> key, use_stale |-> use_stale, t |-> now,
                    pre |-> cache_manager, result |-> r.result,
                    stored |-> last.stored]
  /\ stats' = [stats EXCEPT !.calls = @ + 1]
  /\ UNCHANGED <<now, rate_limiter, threads>>

LayerSet(key, value, memory_ttl, disk_ttl) ==
  /\ stats.calls < MaxLayerCalls
  /\ cache_manager' = LayeredCacheManager_set(cache_manager, key, value,
                                               memory_ttl, disk_ttl, now)
  /\ last' = [op |-> "set", key |-> key, t |-> now,
              stored |-> [k \in DOMAIN last.stored \cup {key} |->
                            IF k = key
                              THEN [data |-> value, t |-> now,
                                    ttl_seconds |-> stored_ttl(cache_manager,
                                                               memory_ttl, disk_ttl)]
                              ELSE last.stored[k]]]
  /\ stats' = [stats EXCEPT !.calls = @ + 1]
  /\ UNCHANGED <<now, rate_limiter, threads>>

TickLayer ==
  /\ now < MaxLayerTime
  /\ now' = now + 1
  /\ UNCHANGED <<rate_limiter, cache_manager, stats, last, threads>>

NextLayer ==
  \/ \E key \in LayerKeys, use_stale \in BOOLEAN : LayerGet(key, use_stale)
  \/ \E key \in LayerKeys, value \in Payloads, memory_ttl \in LayerTTLs,
         disk_ttl \in LayerTTLs :
       LayerSet(key, value, memory_ttl, disk_ttl)
  \/ TickLayer

SpecLayer == InitLayer /\ [][NextLayer]_vars

(* The latest call was a get for a key that was stored earlier and has     *)
(* passed its TTL, and of which neither cache held an unexpired entry.     *)
IsLayerGet == last.op = "get"

Unexpired(store, key, t) == key \in DOMAIN store /\ ~is_expired(store[key], t)

NoUnexpiredEntry ==
  /\ last.pre.memory_cache # None =>
       ~Unexpired(last.pre.memory_cache[1].cache, last.key, last.t)
  /\ last.pre.disk_cache # None =>
       ~Unexpired(last.pre.disk_cache[1].files, last.key, last.t)

ExpiredGet ==
  /\ IsLayerGet
  /\ last.key \in DOMAIN last.stored
  /\ last.pre.memory_cache # None \/ last.pre.disk_cache # None
  /\ last.t - last.stored[last.key].t > last.stored[last.key].ttl_seconds
  /\ NoUnexpiredEntry

(* C40: CacheManager.get(key, use_stale=True) of the caching layer returns *)
(* the expired data of a key stored earlier when no unexpired entry        *)
(* exists for it; with use_stale=False it returns None.                    *)
C40_StaleFallback ==
  ExpiredGet =>
    IF last.use_stale
      THEN /\ last.result # None
           /\ last.result[1].data = last.stored[last.key].data
      ELSE last.result = None

====
